---- MODULE Spec2Model ----
(***************************************************************************)
(* Directory-tree synchronisation and hunk-level review engine.            *)
(*   sync.py   : FigmaSyncManager  (scan, classify, label, diff, apply)    *)
(*   review.py : InteractiveDiffReviewer (hunk parser, review, decisions)  *)
(*                                                                         *)
(* Text files are sequences of lines; a line is a sequence of characters   *)
(* (its terminating newline left implicit: every line of the files         *)
(* considered here is newline-terminated).  Indices of the diff machinery  *)
(* are 0-based and half-open, as in the Python source.                     *)
(***************************************************************************)
EXTENDS Integers, Sequences, FiniteSets, TLC

\* ------------------------------------------------------------------------
\* Generic helpers
\* ------------------------------------------------------------------------
Min(x, y) == IF x < y THEN x ELSE y
Max(x, y) == IF x > y THEN x ELSE y

\* Python slice s[lo:hi] for 0 <= lo, on a TLA+ sequence
Slice(s, lo, hi) ==
    LET h == Min(hi, Len(s))
    IN  IF lo >= h THEN <<>> ELSE [k \in 1..(h - lo) |-> s[lo + k]]

RECURSIVE Flatten(_)
Flatten(ss) == IF ss = <<>> THEN <<>> ELSE Head(ss) \o Flatten(Tail(ss))

\* ------------------------------------------------------------------------
\* Diff Generator: difflib.unified_diff(old_lines, new_lines, n=3) as called
\* by FigmaSyncManager._create_diff_file
\* ------------------------------------------------------------------------
\* context window passed to unified_diff
ContextLines == 3

\* length of the common run of a and b that ends at a[i], b[j] and stays
\* inside a[alo:], b[blo:]   (the j2len table of find_longest_match)
RECURSIVE RunEnding(_, _, _, _, _, _)
RunEnding(a, b, i, j, alo, blo) ==
    IF i < alo \/ j < blo THEN 0
    ELSE IF a[i + 1] # b[j + 1] THEN 0
    ELSE 1 + RunEnding(a, b, i - 1, j - 1, alo, blo)

\* SequenceMatcher.find_longest_match without junk: the longest matching
\* block of a[alo:ahi] and b[blo:bhi]; of the longest ones the one starting
\* earliest in a, and of those the one starting earliest in b.
FindLongestMatch(a, b, alo, ahi, blo, bhi) ==
    LET Cand == {ij \in (alo..(ahi - 1)) \X (blo..(bhi - 1)) :
                    a[ij[1] + 1] = b[ij[2] + 1]}
        K(ij) == RunEnding(a, b, ij[1], ij[2], alo, blo)
    IN  IF Cand = {} THEN [i |-> alo, j |-> blo, k |-> 0]
        ELSE LET best == CHOOSE ij \in Cand :
                            \A o \in Cand :
                                \/ K(o) < K(ij)
                                \/ /\ K(o) = K(ij)
                                   /\ \/ ij[1] < o[1]
                                      \/ ij[1] = o[1] /\ ij[2] <= o[2]
                 k == K(best)
             IN  [i |-> best[1] - k + 1, j |-> best[2] - k + 1, k |-> k]

\* the recursion of SequenceMatcher.get_matching_blocks, blocks in order
RECURSIVE RawBlocks(_, _, _, _, _, _)
RawBlocks(a, b, alo, ahi, blo, bhi) ==
    LET m == FindLongestMatch(a, b, alo, ahi, blo, bhi)
    IN  IF m.k = 0 THEN <<>>
        ELSE (IF alo < m.i /\ blo < m.j
                 THEN RawBlocks(a, b, alo, m.i, blo, m.j) ELSE <<>>)
             \o <<m>>
             \o (IF m.i + m.k < ahi /\ m.j + m.k < bhi
                 THEN RawBlocks(a, b, m.i + m.k, ahi, m.j + m.k, bhi) ELSE <<>>)

\* get_matching_blocks: adjacent blocks collapsed, then the (la, lb, 0) sentinel
RECURSIVE Collapse(_, _, _)
Collapse(blocks, cur, acc) ==
    IF blocks = <<>>
    THEN IF cur.k > 0 THEN Append(acc, cur) ELSE acc
    ELSE LET nb == Head(blocks)
         IN  IF cur.i + cur.k = nb.i /\ cur.j + cur.k = nb.j
             THEN Collapse(Tail(blocks), [cur EXCEPT !.k = cur.k + nb.k], acc)
             ELSE Collapse(Tail(blocks), nb,
                           IF cur.k > 0 THEN Append(acc, cur) ELSE acc)

MatchingBlocks(a, b) ==
    Append(Collapse(RawBlocks(a, b, 0, Len(a), 0, Len(b)),
                    [i |-> 0, j |-> 0, k |-> 0], <<>>),
           [i |-> Len(a), j |-> Len(b), k |-> 0])

\* SequenceMatcher.get_opcodes
RECURSIVE OpcodesFrom(_, _, _)
OpcodesFrom(blocks, i, j) ==
    IF blocks = <<>> THEN <<>>
    ELSE LET m == Head(blocks)
             tag == IF i < m.i /\ j < m.j THEN "replace"
                    ELSE IF i < m.i THEN "delete"
                    ELSE IF j < m.j THEN "insert"
                    ELSE ""
             chg == IF tag # ""
                    THEN <<[tag |-> tag, i1 |-> i, i2 |-> m.i, j1 |-> j, j2 |-> m.j]>>
                    ELSE <<>>
             eq  == IF m.k > 0
                    THEN <<[tag |-> "equal", i1 |-> m.i, i2 |-> m.i + m.k,
                            j1 |-> m.j, j2 |-> m.j + m.k]>>
                    ELSE <<>>
         IN  chg \o eq \o OpcodesFrom(Tail(blocks), m.i + m.k, m.j + m.k)

Opcodes(a, b) == OpcodesFrom(MatchingBlocks(a, b), 0, 0)

\* SequenceMatcher.get_grouped_opcodes(n): the loop over the fixed-up codes
RECURSIVE GroupLoop(_, _, _, _)
GroupLoop(codes, group, groups, n) ==
    IF codes = <<>>
    THEN IF group # <<>> /\ ~(Len(group) = 1 /\ group[1].tag = "equal")
         THEN Append(groups, group) ELSE groups
    ELSE LET c == Head(codes)
         IN  IF c.tag = "equal" /\ c.i2 - c.i1 > n + n
             THEN GroupLoop(Tail(codes),
                      <<[c EXCEPT !.i1 = Max(c.i1, c.i2 - n),
                                  !.j1 = Max(c.j1, c.j2 - n)]>>,
                      Append(groups,
                             Append(group, [c EXCEPT !.i2 = Min(c.i2, c.i1 + n),
                                                     !.j2 = Min(c.j2, c.j1 + n)])),
                      n)
             ELSE GroupLoop(Tail(codes), Append(group, c), groups, n)

\* get_grouped_opcodes: an empty opcode list stands for one 1-line equal
DefaultCodes(codes) ==
    IF codes = <<>>
    THEN <<[tag |-> "equal", i1 |-> 0, i2 |-> 1, j1 |-> 0, j2 |-> 1]>>
    ELSE codes

\* get_grouped_opcodes: a leading equal keeps its last n lines only
FixFirst(codes, n) ==
    IF codes[1].tag = "equal"
    THEN [codes EXCEPT ![1] = [@ EXCEPT !.i1 = Max(@, codes[1].i2 - n),
                                        !.j1 = Max(@, codes[1].j2 - n)]]
    ELSE codes

\* get_grouped_opcodes: a trailing equal keeps its first n lines only
FixLast(codes, n) ==
    IF codes[Len(codes)].tag = "equal"
    THEN [codes EXCEPT ![Len(codes)] =
                 [@ EXCEPT !.i2 = Min(@, codes[Len(codes)].i1 + n),
                           !.j2 = Min(@, codes[Len(codes)].j1 + n)]]
    ELSE codes

GroupedOpcodes(a, b, n) ==
    GroupLoop(FixLast(FixFirst(DefaultCodes(Opcodes(a, b)), n), n), <<>>, <<>>, n)

\* difflib._format_range_unified: "start,length", the count left out when the
\* range is one line long; an empty range begins at the line before it.
\* The rendered range is the sequence of the numbers printed.
FormatRangeUnified(start, stop) ==
    LET length == stop - start
    IN  IF length = 1 THEN <<start + 1>>
        ELSE IF length = 0 THEN <<start, 0>>
        ELSE <<start + 1, length>>

\* lines of the diff file
TextLine(chars) == [k |-> "text", s |-> chars]
HunkHeaderLine(r1, r2) == [k |-> "hunk", old |-> r1, new |-> r2]

Prefixed(mark, lines) == [x \in 1..Len(lines) |-> TextLine(<<mark>> \o lines[x])]

RECURSIVE GroupBody(_, _, _)
GroupBody(a, b, group) ==
    IF group = <<>> THEN <<>>
    ELSE LET c == Head(group)
             here == IF c.tag = "equal" THEN Prefixed(" ", Slice(a, c.i1, c.i2))
                     ELSE (IF c.tag \in {"replace", "delete"}
                              THEN Prefixed("-", Slice(a, c.i1, c.i2)) ELSE <<>>)
                          \o
                          (IF c.tag \in {"replace", "insert"}
                              THEN Prefixed("+", Slice(b, c.j1, c.j2)) ELSE <<>>)
         IN  here \o GroupBody(a, b, Tail(group))

GroupLines(a, b, group) ==
    <<HunkHeaderLine(FormatRangeUnified(group[1].i1, group[Len(group)].i2),
                     FormatRangeUnified(group[1].j1, group[Len(group)].j2))>>
    \o GroupBody(a, b, group)

\* the two file-header lines "--- a/<name>" and "+++ b/<name>"
FromFileLine == TextLine(<<"-", "-", "-", " ", "a", "/">>)
ToFileLine   == TextLine(<<"+", "+", "+", " ", "b", "/">>)

\* difflib.unified_diff(old_lines, new_lines, fromfile, tofile, n=3)
UnifiedDiff(a, b) ==
    LET groups == GroupedOpcodes(a, b, ContextLines)
    IN  IF groups = <<>> THEN <<>>
        ELSE <<FromFileLine, ToFileLine>>
             \o Flatten([g \in 1..Len(groups) |-> GroupLines(a, b, groups[g])])

\* ------------------------------------------------------------------------
\* Hunk Parser: InteractiveDiffReviewer._parse_diff_file
\* ------------------------------------------------------------------------
IsPrefix(p, s) == Len(p) <= Len(s) /\ \A x \in 1..Len(p) : p[x] = s[x]

\* str.startswith on a line of the diff file; a hunk header is rendered
\* "@@ -<old range> +<new range> @@"
StartsWith(line, p) ==
    IF line.k = "hunk" THEN IsPrefix(p, <<"@", "@", " ", "-">>)
    ELSE IsPrefix(p, line.s)

\* re.match(r'@@ -(\d+),(\d+) \+(\d+),(\d+) @@(.*)', line): both ranges must
\* be printed with their count
HeaderMatches(line) == line.k = "hunk" /\ Len(line.old) = 2 /\ Len(line.new) = 2

NewHunk(line) ==
    [old_start |-> line.old[1], old_count |-> line.old[2],
     new_start |-> line.new[1], new_count |-> line.new[2],
     lines |-> <<>>, added |-> 0, removed |-> 0]

\* the two tests that count a line as an insertion / a deletion
IsAddedLine(line)   == StartsWith(line, <<"+">>) /\ ~StartsWith(line, <<"+", "+", "+">>)
IsRemovedLine(line) == StartsWith(line, <<"-">>) /\ ~StartsWith(line, <<"-", "-", "-">>)

\* the body of the elif branch: the line joins the current hunk and is counted
AddLine(h, line) ==
    [h EXCEPT !.lines = Append(@, line.s),
              !.added = IF IsAddedLine(line) THEN @ + 1 ELSE @,
              !.removed = IF ~IsAddedLine(line) /\ IsRemovedLine(line) THEN @ + 1 ELSE @]

\* the loop over the lines; cur is <<>> for current_hunk = None, else <<hunk>>
RECURSIVE ParseLoop(_, _, _)
ParseLoop(lines, cur, hunks) ==
    IF lines = <<>> THEN hunks \o cur
    ELSE LET line == Head(lines)
         IN  IF StartsWith(line, <<"@", "@">>)
             THEN ParseLoop(Tail(lines),
                            IF HeaderMatches(line) THEN <<NewHunk(line)>> ELSE cur,
                            hunks \o cur)
             ELSE IF cur # <<>>
             THEN ParseLoop(Tail(lines), <<AddLine(cur[1], line)>>, hunks)
             ELSE ParseLoop(Tail(lines), cur, hunks)

ParseDiffFile(lines) == ParseLoop(lines, <<>>, <<>>)

\* ------------------------------------------------------------------------
\* InteractiveDiffReviewer._apply_hunk
\* ------------------------------------------------------------------------
\* the replacement lines of a hunk: every line but the removed ones, without
\* its marker
RECURSIVE NewContent(_)
NewContent(hlines) ==
    IF hlines = <<>> THEN <<>>
    ELSE LET line == Head(hlines)
         IN  (IF IsPrefix(<<"-">>, line) THEN <<>>
              ELSE IF IsPrefix(<<"+">>, line) THEN <<Tail(line)>>
              ELSE IF IsPrefix(<<" ">>, line) THEN <<Tail(line)>>
              ELSE <<line>>)
             \o NewContent(Tail(hlines))

\* a Python slice bound on a list of length n (negative bounds count from the end)
SliceBound(x, n) == IF x < 0 THEN Max(x + n, 0) ELSE Min(x, n)

\* result[start:end] = new_content
AssignSlice(result, start, end, new) ==
    LET s == SliceBound(start, Len(result))
        e == Max(SliceBound(end, Len(result)), s)
    IN  Slice(result, 0, s) \o new \o Slice(result, e, Len(result))

ApplyHunk(hunk, original_lines) ==
    LET start == hunk.old_start - 1
        end   == start + hunk.old_count
    IN  AssignSlice(original_lines, start, end, NewContent(hunk.lines))

\* the hunks of a diff applied one after the other, in file order
RECURSIVE ApplyAllHunks(_, _)
ApplyAllHunks(hunks, lines) ==
    IF hunks = <<>> THEN lines
    ELSE ApplyAllHunks(Tail(hunks), ApplyHunk(Head(hunks), lines))

\* ------------------------------------------------------------------------
\* Paths and trees.  A relative path is the sequence of its characters; a
\* tree maps the paths that exist in it to "dir" or to a file's content.
\* ------------------------------------------------------------------------
\* the characters used in paths, in ascending code-point order (str ordering)
CharOrder == <<".", "/", "a", "b", "c", "d", "k", "p", "t", "u">>
CharRank(c) == CHOOSE x \in 1..Len(CharOrder) : CharOrder[x] = c

\* Python's str.__lt__
RECURSIVE StrLess(_, _)
StrLess(s, t) ==
    IF t = <<>> THEN FALSE
    ELSE IF s = <<>> THEN TRUE
    ELSE IF Head(s) = Head(t) THEN StrLess(Tail(s), Tail(t))
    ELSE CharRank(Head(s)) < CharRank(Head(t))

Range(f) == {f[x] : x \in DOMAIN f}

\* sorted(...) of a collection of distinct strings
RECURSIVE SortedSeq(_)
SortedSeq(S) ==
    IF S = {} THEN <<>>
    ELSE LET m == CHOOSE x \in S : \A y \in S : x = y \/ StrLess(x, y)
         IN  <<m>> \o SortedSeq(S \ {m})

Sorted(list) == SortedSeq(Range(list))

SlashAt(p) == {x \in 1..Len(p) : p[x] = "/"}
LastSlash(p) == CHOOSE x \in SlashAt(p) : \A y \in SlashAt(p) : y <= x
\* str(Path(p).parent): "." for a top-level path
Parent(p) == IF SlashAt(p) = {} THEN <<".">> ELSE SubSeq(p, 1, LastSlash(p) - 1)
\* Path(p).name
BaseName(p) == IF SlashAt(p) = {} THEN p ELSE SubSeq(p, LastSlash(p) + 1, Len(p))
\* dest.with_suffix(dest.suffix + '.backup')
BackupPath(p) == p \o <<".", "b", "a", "c", "k", "u", "p">>

Dir == "dir"
Exists(tree, p) == p \in DOMAIN tree
IsDir(tree, p)  == p \in DOMAIN tree /\ tree[p] = Dir
IsFile(tree, p) == p \in DOMAIN tree /\ tree[p] # Dir
\* a file that exists and that open() refuses to read
Unreadable == "unreadable"
CanRead(tree, p) == IsFile(tree, p) /\ tree[p] # Unreadable

\* dict[key] = value
Put(d, key, value) == [x \in DOMAIN d \cup {key} |-> IF x = key THEN value ELSE d[x]]
\* del dict[key]
Del(d, key) == [x \in DOMAIN d \ {key} |-> d[x]]

\* ------------------------------------------------------------------------
\* Tree Scanner: FigmaSyncManager._get_project_structure.  `listing` is the
\* order in which the file system lists directory entries (os.walk gives no
\* order of its own): a sequence holding every path once.
\* ------------------------------------------------------------------------
\* hashlib.md5(content).hexdigest()
Fingerprint(content) == <<"md5", content>>

ListDirs(tree, listing, dir) ==
    SelectSeq(listing, LAMBDA p : IsDir(tree, p) /\ Parent(p) = dir)
ListFiles(tree, listing, dir) ==
    SelectSeq(listing, LAMBDA p : IsFile(tree, p) /\ Parent(p) = dir)

\* structure['folders']: the directories of each visited directory, top-down
RECURSIVE WalkFolders(_, _, _)
WalkFolders(tree, listing, dir) ==
    LET dirs == ListDirs(tree, listing, dir)
    IN  dirs \o Flatten([x \in 1..Len(dirs) |-> WalkFolders(tree, listing, dirs[x])])

\* the keys of structure['files'], in insertion order
RECURSIVE WalkFiles(_, _, _)
WalkFiles(tree, listing, dir) ==
    LET dirs == ListDirs(tree, listing, dir)
    IN  ListFiles(tree, listing, dir)
        \o Flatten([x \in 1..Len(dirs) |-> WalkFiles(tree, listing, dirs[x])])

\* a file whose read raises is reported and gets no entry in structure['files']
GetProjectStructure(tree, listing) ==
    LET fs == SelectSeq(WalkFiles(tree, listing, <<".">>), LAMBDA p : CanRead(tree, p))
    IN  [folders |-> WalkFolders(tree, listing, <<".">>),
         fileOrder |-> fs,
         files |-> [p \in Range(fs) |-> Fingerprint(tree[p])]]

\* ------------------------------------------------------------------------
\* Change Classifier: FigmaSyncManager.scan_projects
\* ------------------------------------------------------------------------
NewFolders(old, new) ==
    SelectSeq(new.folders, LAMBDA f : f \notin Range(old.folders))
DeletedFolders(old, new) ==
    SelectSeq(old.folders, LAMBDA f : f \notin Range(new.folders))
NewFiles(old, new) ==
    SelectSeq(new.fileOrder, LAMBDA p : p \notin DOMAIN old.files)
\* the update test without the fingerprint comparison
UpdatedFilesAnyCommon(old, new) ==
    SelectSeq(new.fileOrder, LAMBDA p : p \in DOMAIN old.files)
UpdatedFiles(old, new) ==
    SelectSeq(new.fileOrder,
              LAMBDA p : p \in DOMAIN old.files /\ old.files[p] # new.files[p])
IdenticalFiles(old, new) ==
    SelectSeq(new.fileOrder,
              LAMBDA p : p \in DOMAIN old.files /\ old.files[p] = new.files[p])
\* the deleted-file loop without its `not in` test
DeletedFilesUnfiltered(old, new) == old.fileOrder
DeletedFiles(old, new) ==
    SelectSeq(old.fileOrder, LAMBDA p : p \notin DOMAIN new.files)

ScanProjects(oldT, newT, listing) ==
    LET old == GetProjectStructure(oldT, listing)
        new == GetProjectStructure(newT, listing)
    IN  [old_structure   |-> old,
         new_structure   |-> new,
         new_folders     |-> NewFolders(old, new),
         deleted_folders |-> DeletedFolders(old, new),
         new_files       |-> NewFiles(old, new),
         updated_files   |-> UpdatedFiles(old, new),
         identical_files |-> IdenticalFiles(old, new),
         deleted_files   |-> DeletedFiles(old, new)]

\* ------------------------------------------------------------------------
\* Label Registry: process_new_folders / process_new_files /
\* process_updated_files
\* ------------------------------------------------------------------------
\* f"{kind}{idx:03d}"
Label(kind, idx) == <<kind, idx>>

\* for idx, item in enumerate(items, 1): labels[f"{kind}{idx:03d}"] = item
EnumerateLabels(kind, items) ==
    [l \in {Label(kind, x) : x \in 1..Len(items)} |-> items[l[2]]]

\* process_new_folders: the folders in the order scan_projects found them
FolderLabels(new_folders) == EnumerateLabels("F", new_folders)

\* process_new_files: grouped by parent directory, directories sorted, the
\* files of each directory sorted, one counter over all of them
FilesByDir(new_files, dir) ==
    SelectSeq(new_files, LAMBDA p : Parent(p) = dir)
NewFileOrder(new_files) ==
    LET dirs == SortedSeq({Parent(p) : p \in Range(new_files)})
    IN  Flatten([x \in 1..Len(dirs) |-> Sorted(FilesByDir(new_files, dirs[x]))])
\* the label counter restarted for every directory
FileLabelsCounterPerDir(new_files) ==
    LET dirs == SortedSeq({Parent(p) : p \in Range(new_files)})
        per(d) == EnumerateLabels("N", Sorted(FilesByDir(new_files, d)))
        all == UNION {DOMAIN per(d) : d \in Range(dirs)}
    IN  [l \in all |->
            LET last == CHOOSE x \in 1..Len(dirs) :
                            /\ l \in DOMAIN per(dirs[x])
                            /\ \A y \in (x + 1)..Len(dirs) : l \notin DOMAIN per(dirs[y])
            IN  per(dirs[last])[l]]
FileLabels(new_files) == EnumerateLabels("N", NewFileOrder(new_files))

\* process_updated_files: enumerate(sorted(self.updated_files), 1)
UpdateLabels(updated_files) == EnumerateLabels("U", Sorted(updated_files))

\* ------------------------------------------------------------------------
\* State
\* ------------------------------------------------------------------------
VARIABLES
    oldTree,      \* the old project: path -> "dir" | file content
    newTree,      \* the new export:  path -> "dir" | file content
    run,          \* the FigmaSyncManager of the analysis that ran last, gone when
                  \* another command starts: <<>> or <<fields>>
    tracking,     \* 00_REPORTS/sync_tracking.json: <<>> (absent) or <<report>>
    previewDirs,  \* 01_NEW_FOLDERS: the directories <<label, path>> that exist
    updPreview,   \* 03_UPDATED_FILES: label -> (file name -> [old, new, diff])
    analyses,     \* how many times run_analysis was started
    fileA, fileB, \* a pair of text files handed to the diff generator
    diffFile,     \* the diff file written for them
    hunks,        \* the hunks parsed from it
    patched,      \* fileA after the hunks were applied
    hpc,          \* how far the diff / parse / apply pipeline has come
    decisionsFile,\* 00_REPORTS/review_decisions.json: <<>> (absent) or <<decisions>>
    applyScript,  \* apply_approved.sh: <<>> (absent) or <<labels it applies>>
    rv,           \* the running review.py process (InteractiveDiffReviewer)
    other,        \* a second review.py process on the same directory, waiting
                  \* at its prompt while the first one runs (proc), and how
                  \* often the two have taken turns (switches)
    firstBefore,  \* history: target path -> its content before its first apply
    lastApply,    \* history: <<>> or <<the update apply that was done last>>
    lastOutcome,  \* history: label -> the decision recorded last for it
    commands,     \* how many commands were started
    session       \* history, kept only when session.on: the answers typed in
                  \* the process started last (log), how the step taken last
                  \* and the one before it ended (last, prev), the decisions
                  \* the process of the last step held when that
                  \* step began (before), and the decisions the process that
                  \* ended last held at its end (memory)

scanVars == <<oldTree, newTree, run, tracking, previewDirs, updPreview, analyses>>
hunkVars == <<fileA, fileB, diffFile, hunks, patched, hpc>>
reviewVars == <<decisionsFile, applyScript, rv, other>>
histVars == <<firstBefore, lastApply, lastOutcome, session>>
vars == <<scanVars, hunkVars, reviewVars, histVars, commands>>

\* _load_decisions when there is no decisions file
EmptyDecisions == [approved |-> <<>>, rejected |-> <<>>, partial |-> <<>>]

\* the end of an operation: which one, for which label, and how it ended
Event(op, label, status) == [op |-> op, label |-> label, status |-> status]
NoEvent == Event("", <<>>, "")
\* no history is kept / the history at the start
NoHistory == [on |-> FALSE, log |-> <<>>, last |-> NoEvent, prev |-> NoEvent,
              before |-> EmptyDecisions, memory |-> EmptyDecisions]
NewHistory == [NoHistory EXCEPT !.on = TRUE]
\* the step ends with event e
Record(e) ==
    session' = IF session.on
               THEN [session EXCEPT !.last = e, !.prev = session.last,
                                    !.before = rv.decisions]
               ELSE session
\* the same when the step ends the process, which held decisions d
RecordEnd(e, d) ==
    session' = IF session.on
               THEN [session EXCEPT !.last = e, !.prev = session.last,
                                    !.before = rv.decisions, !.memory = d]
               ELSE session

\* no review.py process is running
IdleReviewer ==
    [pc |-> "idle", tracking_data |-> <<>>, decisions |-> EmptyDecisions,
     todo |-> <<>>, caller |-> "", label |-> <<>>, file_path |-> <<>>,
     total |-> 0, idx |-> 0, approved |-> 0, rejected |-> 0]

\* ------------------------------------------------------------------------
\* File contents.  A tree holds a content name per file; the text behind a
\* name is a sequence of lines.
\* ------------------------------------------------------------------------
DigitChars == <<"0", "1", "2", "3", "4", "5", "6", "7", "8", "9">>
\* the text of line i of the numbered file, and of a line foreign to it
NumberedLine(i) == <<"l", DigitChars[(i \div 10) + 1], DigitChars[(i % 10) + 1]>>
ForeignLine == <<"n", "e", "w">>
NumberedFile(n) == [i \in 1..n |-> NumberedLine(i)]

\* a file edited at the positions of e: the line replaced by a foreign
\* line, deleted, or followed by an inserted foreign line
Edited(file, e) ==
    Flatten([i \in 1..Len(file) |->
        IF i \notin DOMAIN e THEN <<file[i]>>
        ELSE IF e[i] = "replace" THEN <<ForeignLine>>
        ELSE IF e[i] = "delete" THEN <<>>
        ELSE <<file[i], ForeignLine>>])

\* the texts of the trees: nine numbered lines (X), the same with the first
\* and the last line rewritten (Y), a file of one line (Z), seventeen numbered
\* lines (V) and the same with lines 1, 9 and 17 rewritten (W)
Contents == {"X", "Y", "Z", "V", "W"}
FileText(c) ==
    IF c = "X" THEN NumberedFile(9)
    ELSE IF c = "Y" THEN Edited(NumberedFile(9), (1 :> "replace") @@ (9 :> "replace"))
    ELSE IF c = "V" THEN NumberedFile(17)
    ELSE IF c = "W" THEN Edited(NumberedFile(17), (1 :> "replace") @@ (9 :> "replace")
                                                   @@ (17 :> "replace"))
    ELSE <<ForeignLine>>

\* _create_diff_file(old_file, new_file, diff_file): the lines written,
\* tabulated for every pair of texts (f @@ <<>> is f, as a table)
DiffOf == [pair \in Contents \X Contents |->
              UnifiedDiff(FileText(pair[1]), FileText(pair[2]))] @@ <<>>
\* a file that open(..., encoding='utf-8').readlines() cannot decode
Binary == "binary"
Decodable(content) == content \in Contents
\* what is in diff_file afterwards: the lines just written, or, when reading
\* raised before the write, whatever `before` (<<>> or <<lines>>) was there
CreateDiffFile(old_content, new_content, before) ==
    IF Decodable(old_content) /\ Decodable(new_content)
    THEN <<DiffOf[<<old_content, new_content>>]>>
    ELSE before

\* no second process
NoOther == [proc |-> IdleReviewer, switches |-> 0]

\* all orders in which the paths of S can be listed
RECURSIVE Perms(_)
Perms(S) ==
    IF S = {} THEN {<<>>}
    ELSE UNION {{<<x>> \o t : t \in Perms(S \ {x})} : x \in S}

\* ------------------------------------------------------------------------
\* run_analysis
\* ------------------------------------------------------------------------
\* the proper ancestors of a relative path
Ancestors(p) == {SubSeq(p, 1, x - 1) : x \in SlashAt(p)}
IsUnder(p, d) == IsPrefix(d \o <<"/">>, p)

\* the directories shutil.copytree(new/folder, preview_dir/folder) creates
CopiedDirs(tree, folder) ==
    {folder} \cup Ancestors(folder) \cup {d \in DOMAIN tree : IsDir(tree, d) /\ IsUnder(d, folder)}

\* shutil.copytree copies what it can and raises shutil.Error at its end
\* when a file under the folder could not be read
CopyTreeFails(tree, folder) ==
    \E p \in DOMAIN tree : IsUnder(p, folder) /\ tree[p] = Unreadable

\* process_new_folders over new_folders[idx..]: copytree raises when its
\* destination exists or a file could not be copied, which ends the analysis.
\* Gives the labels set, the preview directories, and whether the loop ran
\* to its end.
RECURSIVE ProcessNewFolders(_, _, _, _, _)
ProcessNewFolders(tree, new_folders, idx, labels, dirs) ==
    IF idx > Len(new_folders) THEN [labels |-> labels, dirs |-> dirs, ok |-> TRUE]
    ELSE LET label  == Label("F", idx)
             folder == new_folders[idx]
             labels2 == Put(labels, label, folder)
         IN  IF <<label, folder>> \in dirs
             THEN [labels |-> labels2, dirs |-> dirs, ok |-> FALSE]
             ELSE IF CopyTreeFails(tree, folder)
             THEN [labels |-> labels2, ok |-> FALSE,
                   dirs |-> dirs \cup {<<label, d>> : d \in CopiedDirs(tree, folder)}]
             ELSE ProcessNewFolders(tree, new_folders, idx + 1, labels2,
                      dirs \cup {<<label, d>> : d \in CopiedDirs(tree, folder)})

\* process_updated_files: the diff, the .OLD and the .NEW copy of every
\* labelled file, stored under the file's name in the label's directory
RECURSIVE WriteUpdatePreviews(_, _, _, _)
WriteUpdatePreviews(labels, oldT, newT, prev) ==
    IF DOMAIN labels = {} THEN prev
    ELSE LET l == CHOOSE x \in DOMAIN labels : TRUE
             path == labels[l]
             dir == IF l \in DOMAIN prev THEN prev[l] ELSE <<>>
             name == BaseName(path)
             written == CreateDiffFile(oldT[path], newT[path],
                            IF name \in DOMAIN dir /\ dir[name].has_diff
                            THEN <<dir[name].diff>> ELSE <<>>)
             entry == [old |-> oldT[path], new |-> newT[path],
                       has_diff |-> written # <<>>,
                       diff |-> IF written # <<>> THEN written[1] ELSE <<>>]
         IN  WriteUpdatePreviews(Del(labels, l), oldT, newT,
                                 Put(prev, l, Put(dir, BaseName(path), entry)))

\* the file names that have a preview (.OLD, .NEW) in a label's directory
PreviewNames(label) ==
    IF label \in DOMAIN updPreview THEN DOMAIN updPreview[label] ELSE {}

\* the file names that have a .diff there
DiffNames(label) == {name \in PreviewNames(label) : updPreview[label][name].has_diff}

\* generate_summary_report: the tracking report
Report(r) ==
    [statistics |-> [new_folders |-> Len(r.new_folders),
                     new_files |-> Len(r.new_files),
                     updated_files |-> Len(r.updated_files),
                     deleted_folders |-> Len(r.deleted_folders),
                     deleted_files |-> Len(r.deleted_files),
                     identical_files |-> Len(r.identical_files)],
     labels |-> [folders |-> r.folder_labels,
                 files |-> r.file_labels,
                 updates |-> r.update_labels]]

\* analyses, and commands of any kind, started in one behaviour
MaxAnalyses == 2
MaxCommands == 5

\* a command is started when no other is running
StartCommand ==
    /\ rv.pc = "idle"
    /\ commands < MaxCommands
    /\ commands' = commands + 1

\* sync.py --analyze OLD NEW
Analyze ==
    /\ StartCommand
    /\ analyses < MaxAnalyses
    /\ analyses' = analyses + 1
    /\ lastApply' = <<>>
    /\ lastOutcome' = <<>>
    /\ Record(Event("run_analysis", <<>>, "done"))
    /\ UNCHANGED <<firstBefore, reviewVars>>
    /\ \E listing \in Perms(DOMAIN oldTree \cup DOMAIN newTree) :
        LET sc == ScanProjects(oldTree, newTree, listing)
            pf == ProcessNewFolders(newTree, sc.new_folders, 1, <<>>, previewDirs)
            labelled ==
                [old_structure |-> sc.old_structure,
                 new_structure |-> sc.new_structure,
                 new_folders |-> sc.new_folders,
                 deleted_folders |-> sc.deleted_folders,
                 new_files |-> sc.new_files,
                 updated_files |-> sc.updated_files,
                 identical_files |-> sc.identical_files,
                 deleted_files |-> sc.deleted_files,
                 folder_labels |-> pf.labels,
                 file_labels |-> IF pf.ok THEN FileLabels(sc.new_files) ELSE <<>>,
                 update_labels |-> IF pf.ok THEN UpdateLabels(sc.updated_files) ELSE <<>>,
                 completed |-> pf.ok]
        IN  /\ run' = <<labelled>>
            /\ previewDirs' = pf.dirs
            /\ IF pf.ok
               THEN /\ updPreview' = WriteUpdatePreviews(labelled.update_labels,
                                                         oldTree, newTree, updPreview)
                    /\ tracking' = <<Report(labelled)>>
               ELSE UNCHANGED <<updPreview, tracking>>
            /\ UNCHANGED <<oldTree, newTree, hunkVars>>

\* ------------------------------------------------------------------------
\* Scanning and labelling on its own: two arbitrary small trees, analysed
\* ------------------------------------------------------------------------
ScanPaths == {<<"a">>, <<"b">>, <<"a", "/", "c">>}
ScanContents == {"X", "Y"}

\* a file system: every path that exists lies in a directory that exists
WellFormedTree(t) == \A p \in DOMAIN t : \A d \in Ancestors(p) : IsDir(t, d)
ScanTrees ==
    {t \in UNION {[S -> ScanContents \cup {Dir}] : S \in SUBSET ScanPaths} :
        WellFormedTree(t)}

HunkIdle ==
    /\ fileA = <<>> /\ fileB = <<>> /\ diffFile = <<>>
    /\ hunks = <<>> /\ patched = <<>> /\ hpc = "none"

NoAnalysisYet ==
    /\ run = <<>> /\ tracking = <<>> /\ previewDirs = {} /\ updPreview = <<>>
    /\ analyses = 0

NoReviewYet ==
    /\ decisionsFile = <<>> /\ applyScript = <<>> /\ rv = IdleReviewer
    /\ other = NoOther
    /\ firstBefore = <<>> /\ lastApply = <<>> /\ lastOutcome = <<>>
    /\ commands = 0

NoSessionHistory == session = NoHistory

InitScan ==
    /\ oldTree \in ScanTrees
    /\ newTree \in ScanTrees
    /\ NoAnalysisYet
    /\ HunkIdle
    /\ NoReviewYet
    /\ NoSessionHistory

NextScan == Analyze

SpecScan == InitScan /\ [][NextScan]_vars

\* ------------------------------------------------------------------------
\* Properties of the classifier and the label registry (under SpecScan)
\* ------------------------------------------------------------------------
Analysed == run # <<>>
R == run[1]

OldFolders == Range(R.old_structure.folders)
NewFoldersScanned == Range(R.new_structure.folders)
OldFiles == DOMAIN R.old_structure.files
NewFilesScanned == DOMAIN R.new_structure.files
ScannedPaths == OldFolders \cup NewFoldersScanned \cup OldFiles \cup NewFilesScanned

FolderBuckets == {"new_folders", "deleted_folders"}
FileBuckets == {"new_files", "updated_files", "deleted_files", "identical_files"}
BucketsHolding(p, names) == {b \in names : p \in Range(R[b])}

\* C6 as stated: every scanned path, folder or file, lies in exactly one of
\* the six buckets.
C6_ExactlyOneBucket ==
    Analysed =>
        \A p \in ScannedPaths :
            Cardinality(BucketsHolding(p, FolderBuckets \cup FileBuckets)) = 1

\* C6 amended: every path scanned as a file lies in exactly one of the four
\* file buckets (and a path scanned only as a folder in none of them); a
\* path scanned as a folder in exactly one tree lies in exactly one of the two
\* folder buckets, a folder of both trees (or a path that is no folder) in
\* neither.  So a path lies in two buckets exactly when it is a folder in
\* one tree and a file in the other, and a folder of both trees in none.
C6_BucketsPerKind ==
    Analysed =>
        \A p \in ScannedPaths :
            /\ Cardinality(BucketsHolding(p, FileBuckets)) =
                   (IF p \in OldFiles \cup NewFilesScanned THEN 1 ELSE 0)
            /\ Cardinality(BucketsHolding(p, FolderBuckets)) =
                   (IF (p \in OldFolders) # (p \in NewFoldersScanned) THEN 1 ELSE 0)

\* an analysis met a folder of both trees and a path whose kind differs
C6_Witness ==
    /\ Analysed
    /\ \E p \in ScannedPaths : p \in OldFolders /\ p \in NewFoldersScanned
    /\ \E q \in ScannedPaths : q \in OldFolders /\ q \in NewFilesScanned
    /\ \E q \in ScannedPaths : Cardinality(BucketsHolding(q, FileBuckets)) = 1

\* C7: each bucket is the set difference / comparison the classifier rules
\* give, and a path that is a folder in one tree and a file in the other is a
\* folder deletion (creation) plus a file creation (deletion), never an update.
C7_ClassifierRules ==
    Analysed =>
        /\ Range(R.new_folders) = NewFoldersScanned \ OldFolders
        /\ Range(R.deleted_folders) = OldFolders \ NewFoldersScanned
        /\ Range(R.new_files) = NewFilesScanned \ OldFiles
        /\ Range(R.deleted_files) = OldFiles \ NewFilesScanned
        /\ Range(R.updated_files) =
               {p \in OldFiles \cap NewFilesScanned :
                    R.old_structure.files[p] # R.new_structure.files[p]}
        /\ Range(R.identical_files) =
               {p \in OldFiles \cap NewFilesScanned :
                    R.old_structure.files[p] = R.new_structure.files[p]}
        /\ \A p \in OldFolders \cap NewFilesScanned :
               /\ p \in Range(R.deleted_folders) /\ p \in Range(R.new_files)
               /\ p \notin Range(R.updated_files)
        /\ \A p \in NewFoldersScanned \cap OldFiles :
               /\ p \in Range(R.new_folders) /\ p \in Range(R.deleted_files)
               /\ p \notin Range(R.updated_files)

\* an analysis that met an updated file, a new file and a path that is a
\* file in the old tree and a folder in the new one
C7_Witness ==
    /\ Analysed
    /\ R.updated_files # <<>>
    /\ R.new_files # <<>>
    /\ NewFoldersScanned \cap OldFiles # {}

\* C8 as stated: within each kind the labels follow the sorted rank of the
\* paths: folders and updated files in lexicographic order, new files by
\* parent directory and then by path.
LabelNumbers(labels) == {l[2] : l \in DOMAIN labels}
FileRankLess(p, q) ==
    \/ StrLess(Parent(p), Parent(q))
    \/ Parent(p) = Parent(q) /\ StrLess(p, q)
C8_LabelsBySortedRank ==
    (Analysed /\ R.completed) =>
        /\ \A x, y \in LabelNumbers(R.folder_labels) :
               x < y => StrLess(R.folder_labels[Label("F", x)], R.folder_labels[Label("F", y)])
        /\ \A x, y \in LabelNumbers(R.file_labels) :
               x < y => FileRankLess(R.file_labels[Label("N", x)], R.file_labels[Label("N", y)])
        /\ \A x, y \in LabelNumbers(R.update_labels) :
               x < y => StrLess(R.update_labels[Label("U", x)], R.update_labels[Label("U", y)])

\* C9: in the tracking file an analysis wrote, no two labels of a kind name
\* the same path, and the labelled paths are exactly the new folders, the new
\* files and the updated files of that analysis.
Injective(f) == \A x, y \in DOMAIN f : f[x] = f[y] => x = y
C9_LabelsUniqueAndCovering ==
    (Analysed /\ R.completed) =>
        /\ tracking # <<>>
        /\ LET L == tracking[1].labels
           IN  /\ Injective(L.folders) /\ Injective(L.files) /\ Injective(L.updates)
               /\ Range(L.folders) = Range(R.new_folders)
               /\ Range(L.files) = Range(R.new_files)
               /\ Range(L.updates) = Range(R.updated_files)
               /\ \A l \in DOMAIN L.folders : l[1] = "F"
               /\ \A l \in DOMAIN L.files : l[1] = "N"
               /\ \A l \in DOMAIN L.updates : l[1] = "U"

\* a tracking file with a folder label and two new-file labels in different
\* directories
C9_Witness ==
    /\ Analysed /\ R.completed /\ tracking # <<>>
    /\ DOMAIN tracking[1].labels.folders # {}
    /\ Cardinality({Parent(p) : p \in Range(tracking[1].labels.files)}) >= 2

\* ------------------------------------------------------------------------
\* Analysing trees that hold files which cannot be read or decoded
\* ------------------------------------------------------------------------
ReadContents == {"X", Binary, Unreadable}
ReadTrees ==
    {t \in UNION {[S -> ReadContents \cup {Dir}] : S \in SUBSET ScanPaths} :
        WellFormedTree(t)}

InitRead ==
    /\ oldTree \in ReadTrees
    /\ newTree \in ReadTrees
    /\ NoAnalysisYet
    /\ HunkIdle
    /\ NoReviewYet
    /\ NoSessionHistory

NextRead == Analyze

SpecRead == InitRead /\ [][NextRead]_vars

UnreadablePaths ==
    {p \in DOMAIN oldTree : oldTree[p] = Unreadable}
        \cup {p \in DOMAIN newTree : newTree[p] = Unreadable}

\* C21 as stated: the scan of trees that hold unreadable files completes, and
\* a path whose file cannot be read in either tree lies in none of new_files,
\* updated_files, deleted_files, identical_files, whether or not the other
\* tree holds a readable file at the same path.
C21_UnreadableInNoChangeSet ==
    Analysed =>
        \A p \in UnreadablePaths : BucketsHolding(p, FileBuckets) = {}

\* C23 as stated: after an analysis that ran to its end, the preview
\* directory of every update label of the tracking file holds the diff, the
\* old copy and the new copy of the label's file, also when the diff of a
\* file could not be generated.
C23_ArtifactTriplePerLabel ==
    (Analysed /\ R.completed) =>
        \A label \in DOMAIN tracking[1].labels.updates :
            LET name == BaseName(tracking[1].labels.updates[label])
            IN  /\ name \in PreviewNames(label)
                /\ updPreview[label][name].has_diff

\* ------------------------------------------------------------------------
\* The diff / parse / apply pipeline on its own: a pair of text files is
\* diffed (_create_diff_file), the diff file parsed (_parse_diff_file) and
\* its hunks applied to the old file (_apply_hunk), hunk after hunk.
\* ------------------------------------------------------------------------
\* longest file of the family of numbered lines, and of the exhaustive family
MaxFileLen == 9
MaxSmallLen == 2

\* at most two edited lines
EditChoices(n) ==
    UNION {[S -> {"replace", "delete", "insert"}] :
              S \in {T \in SUBSET (1..n) : Cardinality(T) <= 2}}

SmallFiles ==
    UNION {[1..n -> {<<"a">>, <<"b">>}] : n \in 0..MaxSmallLen}

FilePairs ==
    (SmallFiles \X SmallFiles)
    \cup UNION {{<<NumberedFile(n), Edited(NumberedFile(n), e)>> : e \in EditChoices(n)} :
                 n \in 0..MaxFileLen}

NoTrees == oldTree = <<>> /\ newTree = <<>>

InitHunk ==
    /\ \E pair \in FilePairs : fileA = pair[1] /\ fileB = pair[2]
    /\ diffFile = <<>> /\ hunks = <<>> /\ patched = <<>>
    /\ hpc = "input"
    /\ NoTrees
    /\ NoAnalysisYet
    /\ NoReviewYet
    /\ NoSessionHistory

\* _create_diff_file: the unified diff of the two files is written
GenerateDiff ==
    /\ hpc = "input"
    /\ diffFile' = UnifiedDiff(fileA, fileB)
    /\ hpc' = "diffed"
    /\ UNCHANGED <<fileA, fileB, hunks, patched, scanVars, reviewVars, histVars, commands>>

\* _parse_diff_file on the diff file
ParseDiff ==
    /\ hpc = "diffed"
    /\ hunks' = ParseDiffFile(diffFile)
    /\ hpc' = "parsed"
    /\ UNCHANGED <<fileA, fileB, diffFile, patched, scanVars, reviewVars, histVars, commands>>

\* _apply_hunk for every parsed hunk, in file order, starting from the old file
ApplyHunks ==
    /\ hpc = "parsed"
    /\ patched' = ApplyAllHunks(hunks, fileA)
    /\ hpc' = "applied"
    /\ UNCHANGED <<fileA, fileB, diffFile, hunks, scanVars, reviewVars, histVars, commands>>

NextHunk == GenerateDiff \/ ParseDiff \/ ApplyHunks

SpecHunk == InitHunk /\ [][NextHunk]_vars

\* C10 as stated: the hunks of diff(A, B), applied in file order to A, give B.
C10_HunkRoundTrip == hpc = "applied" => patched = fileB

\* positions of the hunk-header lines of a diff file, in file order
HeaderPositions(lines) ==
    LET S == {x \in 1..Len(lines) : lines[x].k = "hunk"}
    IN  [i \in 1..Cardinality(S) |->
            CHOOSE x \in S : Cardinality({y \in S : y < x}) = i - 1]

\* the lines after the header at position hp[i], up to the next header or
\* the end of the file
LinesAfterHeader(lines, hp, i) ==
    LET last == IF i < Len(hp) THEN hp[i + 1] - 1 ELSE Len(lines)
    IN  [x \in 1..(last - hp[i]) |-> lines[hp[i] + x].s]

Parsed == hpc \in {"parsed", "applied"}

\* C11 as stated: the parser returns one hunk per hunk-header line of the
\* generated diff, in file order, each hunk holding exactly the lines that
\* follow its header up to the next header; a diff without a header gives
\* the empty list.
C11_OneHunkPerHeader ==
    Parsed =>
        LET hp == HeaderPositions(diffFile)
        IN  /\ Len(hunks) = Len(hp)
            /\ \A i \in 1..Len(hp) :
                   hunks[i].lines = LinesAfterHeader(diffFile, hp, i)

\* ------------------------------------------------------------------------
\* Review Session and Decision Store: InteractiveDiffReviewer.
\* A Python dict that is iterated is the sequence of its <<key, value>>
\* items in insertion order; json.dump / json.load keep that order.
\* ------------------------------------------------------------------------
DictKeys(d) == [x \in 1..Len(d) |-> d[x][1]]
DictHas(d, key) == \E x \in 1..Len(d) : d[x][1] = key
DictGet(d, key) == d[CHOOSE x \in 1..Len(d) : d[x][1] = key][2]
\* d[key] = value: an existing key keeps its place
DictSet(d, key, value) ==
    IF DictHas(d, key)
    THEN [x \in 1..Len(d) |-> IF d[x][1] = key THEN <<key, value>> ELSE d[x]]
    ELSE Append(d, <<key, value>>)
\* del d[key]
DictDel(d, key) == SelectSeq(d, LAMBDA item : item[1] # key)

\* self.tracking_data.get('labels', {}).get('updates', {})
UpdatesOf(tracking_data) ==
    IF tracking_data = <<>> THEN <<>> ELSE tracking_data[1].labels.updates
\* updates.items(): process_updated_files inserted the labels in label order
UpdateItems(updates) ==
    [x \in 1..Cardinality(DOMAIN updates) |-> <<Label("U", x), updates[Label("U", x)]>>]

\* a start that never reads the decisions file
LoadDecisionsNever == EmptyDecisions
\* InteractiveDiffReviewer.__init__: _load_tracking and _load_decisions
LoadDecisions == IF decisionsFile = <<>> THEN EmptyDecisions ELSE decisionsFile[1]
NewReviewer ==
    [IdleReviewer EXCEPT !.tracking_data = tracking, !.decisions = LoadDecisions]

\* RecordDecision with a file that counts as approved as soon as one hunk
\* was accepted
RecordDecisionAnyAccepted(decisions, label, file_path, approved, rejected, total) ==
    IF approved > 0
    THEN [decisions EXCEPT !.approved = DictSet(@, label, file_path),
                           !.partial = DictDel(@, label)]
    ELSE IF rejected = total
    THEN [decisions EXCEPT !.rejected = DictSet(@, label, file_path),
                           !.partial = DictDel(@, label)]
    ELSE [decisions EXCEPT !.partial =
              DictSet(@, label, [file |-> file_path, approved |-> approved,
                                 rejected |-> rejected, total |-> total])]

\* RecordDecision that files every review as a partial one
RecordDecisionAlwaysPartial(decisions, label, file_path, approved, rejected, total) ==
    [decisions EXCEPT !.partial =
        DictSet(@, label, [file |-> file_path, approved |-> approved,
                           rejected |-> rejected, total |-> total])]

\* RecordDecision without the removal of the label's partial entry
RecordDecisionKeepPartial(decisions, label, file_path, approved, rejected, total) ==
    IF approved = total
    THEN [decisions EXCEPT !.approved = DictSet(@, label, file_path)]
    ELSE IF rejected = total
    THEN [decisions EXCEPT !.rejected = DictSet(@, label, file_path)]
    ELSE [decisions EXCEPT !.partial =
              DictSet(@, label, [file |-> file_path, approved |-> approved,
                                 rejected |-> rejected, total |-> total])]

\* review_file, the decision for a label whose hunks were all visited: all
\* accepted, all rejected, or mixed / skipped (the partial entry's timestamp
\* is left out)
RecordDecision(decisions, label, file_path, approved, rejected, total) ==
    IF approved = total
    THEN [decisions EXCEPT !.approved = DictSet(@, label, file_path),
                           !.partial = DictDel(@, label)]
    ELSE IF rejected = total
    THEN [decisions EXCEPT !.rejected = DictSet(@, label, file_path),
                           !.partial = DictDel(@, label)]
    ELSE [decisions EXCEPT !.partial =
              DictSet(@, label, [file |-> file_path, approved |-> approved,
                                 rejected |-> rejected, total |-> total])]

\* the bucket RecordDecision writes to
DecisionKind(approved, rejected, total) ==
    IF approved = total THEN "approved"
    ELSE IF rejected = total THEN "rejected"
    ELSE "partial"

\* What a step of the review process leaves behind: the process itself, the
\* decisions file, the apply script, and the decision recorded last per label.
Here(r) == [rv |-> r, file |-> decisionsFile, script |-> applyScript,
            outcome |-> lastOutcome,
            ses |-> [session EXCEPT !.last = NoEvent, !.prev = session.last,
                                    !.before = rv.decisions]]
\* the same at the start of a process
Started(r) == [Here(r) EXCEPT !.ses.log = <<>>, !.ses.before = r.decisions,
                              !.ses.memory = r.decisions]
\* history: an operation ended / an answer was typed
Mark(o, op, label, status) == [o EXCEPT !.ses.last = Event(op, label, status)]
Typed(o, level, label, choice) ==
    [o EXCEPT !.ses.log = Append(@, <<level, label, choice>>)]
Commit(o) ==
    /\ session' = (IF session.on THEN o.ses ELSE session)
    /\ rv' = o.rv
    /\ decisionsFile' = o.file
    /\ applyScript' = o.script
    /\ lastOutcome' = o.outcome

\* the process ends (it returned to main, or an exception ended it)
Exit(o) == [o EXCEPT !.rv = IdleReviewer, !.ses.memory = o.rv.decisions]

\* review_file is over: its locals are gone
ClearReview(r) ==
    [r EXCEPT !.caller = "", !.label = <<>>, !.file_path = <<>>,
              !.total = 0, !.idx = 0, !.approved = 0, !.rejected = 0]

\* apply_decisions, before its loop: a partial entry whose hunks were all
\* approved is added to the approved bucket (in memory)
RECURSIVE Promote(_, _)
Promote(items, decisions) ==
    IF items = <<>> THEN decisions
    ELSE LET label == Head(items)[1]
             details == Head(items)[2]
         IN  Promote(Tail(items),
                     IF details.approved = details.total
                     THEN [decisions EXCEPT !.approved = DictSet(@, label, details.file)]
                     ELSE decisions)

\* apply_decisions up to its loop over the approved bucket
ApplyDecisions(o) ==
    LET d == Promote(o.rv.decisions.partial, o.rv.decisions)
    IN  IF d.approved = <<>> THEN Exit(Mark(o, "apply_decisions", <<>>, "nothing"))
        ELSE [o EXCEPT !.rv = [ClearReview(o.rv) EXCEPT !.pc = "applying",
                                                        !.decisions = d,
                                                        !.todo = d.approved]]

\* _save_decisions and _show_final_summary: with approved files the apply
\* script is written and the user asked whether to apply now
Finish(o) ==
    LET d == o.rv.decisions
    IN  IF d.approved # <<>>
        THEN [o EXCEPT !.file = <<d>>,
                       !.script = <<DictKeys(d.approved)>>,
                       !.rv = [ClearReview(o.rv) EXCEPT !.pc = "askApply", !.todo = <<>>]]
        ELSE [Exit(o) EXCEPT !.file = <<d>>]

\* quick_review_all, the head of its loop: a label without SUMMARY.txt is
\* passed over without a prompt; after the last label the session finishes
RECURSIVE QuickLoop(_, _)
QuickLoop(o, todo) ==
    IF todo = <<>> THEN Finish(o)
    ELSE IF PreviewNames(Head(todo)[1]) = {} THEN QuickLoop(o, Tail(todo))
    ELSE [o EXCEPT !.rv = [ClearReview(o.rv) EXCEPT !.pc = "quick", !.todo = todo]]

\* review_file returns: to main, which ends the process, or to the loop of
\* quick_review_all, which goes on with the next label
Return(o) ==
    IF o.rv.caller = "quick" THEN QuickLoop(o, Tail(o.rv.todo)) ELSE Exit(o)

\* what the user can type at the prompts, and the labels given on the
\* command line
HunkInputs == {"a", "r", "s", "v", "q", "x"}
QuickInputs == {"a", "r", "v", "q", "s"}
ApplyInputs == {"y", "n"}
LabelInputs == {Label("U", 1), Label("U", 2)}

\* the trees, the analysis output and the apply history stay as they are
ReviewFrame ==
    /\ run' = <<>>
    /\ UNCHANGED <<oldTree, newTree, tracking, previewDirs, updPreview, analyses>>
    /\ UNCHANGED <<hunkVars, firstBefore, lastApply, other>>

\* review_file(label) up to its first prompt.  The diff file is the first
\* match of glob("*.diff") in the label's directory, in no particular order.
ReviewFile(o, label, caller) ==
    LET updates == UpdatesOf(o.rv.tracking_data)
        r == [o.rv EXCEPT !.caller = caller]
    IN  IF label \notin DOMAIN updates
        THEN Commit(Return(Mark([o EXCEPT !.rv = r], "review_file", label, "error")))
        ELSE IF DiffNames(label) = {}
        THEN Commit(Exit(Mark(o, "review_file", label, "raised")))
        ELSE \E name \in DiffNames(label) :
                LET n == Len(ParseDiffFile(updPreview[label][name].diff))
                IN  IF n = 0
                    THEN Commit(Return(Mark([o EXCEPT !.rv = r],
                                            "review_file", label, "no_changes")))
                    ELSE Commit([o EXCEPT !.rv =
                             [r EXCEPT !.pc = "hunk", !.label = label,
                                       !.file_path = updates[label],
                                       !.total = n, !.idx = 1,
                                       !.approved = 0, !.rejected = 0]])

\* review.py --review LABEL
CmdReview ==
    /\ StartCommand
    /\ \E label \in LabelInputs : ReviewFile(Started(NewReviewer), label, "cli")
    /\ ReviewFrame

\* HunkDone that shows the same hunk again instead of the next one
HunkDoneSameHunk(r, choice) ==
    LET o == Typed(Here(r), "hunk", r.label, choice)
    IN  IF r.approved + r.rejected < r.total
        THEN o
        ELSE LET d == RecordDecision(r.decisions, r.label, r.file_path,
                                     r.approved, r.rejected, r.total)
             IN  Return(Mark([o EXCEPT !.rv.decisions = d, !.file = <<d>>],
                             "review_file", r.label, "reviewed"))

\* review_file after the current hunk was accepted, rejected or skipped: the
\* next hunk, or after the last one the decision, saved at once
HunkDone(r, choice) ==
    LET o == Typed(Here(r), "hunk", r.label, choice)
    IN  IF r.idx < r.total
        THEN [o EXCEPT !.rv.idx = r.idx + 1]
        ELSE LET d == RecordDecision(r.decisions, r.label, r.file_path,
                                     r.approved, r.rejected, r.total)
             IN  Return(Mark([o EXCEPT !.rv.decisions = d,
                                       !.file = <<d>>,
                                       !.outcome = Put(lastOutcome, r.label,
                                           DecisionKind(r.approved, r.rejected, r.total))],
                             "review_file", r.label, "reviewed"))

\* review_file, the answer to "What would you like to do?" for one hunk
HunkChoice ==
    /\ rv.pc = "hunk"
    /\ UNCHANGED commands
    /\ \E choice \in HunkInputs :
          Commit(IF choice = "a"
                 THEN HunkDone([rv EXCEPT !.approved = rv.approved + 1], choice)
                 ELSE IF choice = "r"
                 THEN HunkDone([rv EXCEPT !.rejected = rv.rejected + 1], choice)
                 ELSE IF choice = "s" THEN HunkDone(rv, choice)
                 ELSE IF choice = "q"
                 THEN Return(Mark(Typed(Here(rv), "hunk", rv.label, choice),
                                  "review_file", rv.label, "quit"))
                 ELSE Here(rv))
    /\ ReviewFrame

\* review.py --quick: quick_review_all up to its first prompt
CmdQuick ==
    /\ StartCommand
    /\ LET updates == UpdatesOf(tracking)
       IN  IF DOMAIN updates = {}
           THEN Commit(Exit(Mark(Started(NewReviewer),
                                 "quick_review_all", <<>>, "no_updates")))
           ELSE Commit(QuickLoop(Started(NewReviewer), UpdateItems(updates)))
    /\ ReviewFrame

\* quick_review_all, the answer for one label
QuickChoice ==
    /\ rv.pc = "quick"
    /\ UNCHANGED commands
    /\ LET label == Head(rv.todo)[1]
           file_path == Head(rv.todo)[2]
       IN  \E choice \in QuickInputs :
             IF choice = "a"
             THEN Commit(QuickLoop(
                     [Typed(Here([rv EXCEPT !.decisions.approved =
                                                DictSet(@, label, file_path)]),
                            "file", label, choice)
                         EXCEPT !.outcome = Put(lastOutcome, label, "approved")],
                     Tail(rv.todo)))
             ELSE IF choice = "r"
             THEN Commit(QuickLoop(
                     [Typed(Here([rv EXCEPT !.decisions.rejected =
                                                DictSet(@, label, file_path)]),
                            "file", label, choice)
                         EXCEPT !.outcome = Put(lastOutcome, label, "rejected")],
                     Tail(rv.todo)))
             ELSE IF choice = "v" THEN ReviewFile(Here(rv), label, "quick")
             ELSE IF choice = "q"
             THEN Commit(Finish(Mark(Typed(Here(rv), "file", label, choice),
                                     "quick_review_all", label, "quit")))
             ELSE Commit(QuickLoop(Here(rv), Tail(rv.todo)))
    /\ ReviewFrame

\* _show_final_summary, the answer to "apply the approved changes now?"
ApplyChoice ==
    /\ rv.pc = "askApply"
    /\ UNCHANGED commands
    /\ \E choice \in ApplyInputs :
          Commit(IF choice = "y" THEN ApplyDecisions(Here(rv)) ELSE Exit(Here(rv)))
    /\ ReviewFrame

\* review.py --apply
CmdApply ==
    /\ StartCommand
    /\ Commit(ApplyDecisions(Started(NewReviewer)))
    /\ ReviewFrame

\* a reconciliation loop that stops after the first entry it moves
RECURSIVE FixLoopFirstOnly(_, _)
FixLoopFirstOnly(items, decisions) ==
    IF items = <<>> THEN decisions
    ELSE LET label == Head(items)[1]
             details == Head(items)[2]
         IN  IF details.approved = details.total /\ details.total > 0
             THEN [decisions EXCEPT !.approved = DictSet(@, label, details.file),
                                    !.partial = DictDel(@, label)]
             ELSE IF details.rejected = details.total /\ details.total > 0
             THEN [decisions EXCEPT !.rejected = DictSet(@, label, details.file),
                                    !.partial = DictDel(@, label)]
             ELSE FixLoopFirstOnly(Tail(items), decisions)

\* review.py --fix-decisions: the loop over the partial bucket
RECURSIVE FixLoop(_, _)
FixLoop(items, decisions) ==
    IF items = <<>> THEN decisions
    ELSE LET label == Head(items)[1]
             details == Head(items)[2]
         IN  FixLoop(Tail(items),
                 IF details.approved = details.total /\ details.total > 0
                 THEN [decisions EXCEPT !.approved = DictSet(@, label, details.file),
                                        !.partial = DictDel(@, label)]
                 ELSE IF details.rejected = details.total /\ details.total > 0
                 THEN [decisions EXCEPT !.rejected = DictSet(@, label, details.file),
                                        !.partial = DictDel(@, label)]
                 ELSE decisions)

\* review.py --fix-decisions: saved only if an entry was moved
CmdFixDecisions ==
    /\ StartCommand
    /\ LET d == LoadDecisions
           fixed == FixLoop(d.partial, d)
       IN  /\ decisionsFile' = IF fixed # d THEN <<fixed>> ELSE decisionsFile
           /\ session' = IF session.on
                          THEN [session EXCEPT
                                   !.log = <<>>,
                                   !.prev = session.last,
                                   !.before = d,
                                   !.memory = fixed,
                                   !.last = Event("fix_decisions", <<>>,
                                                  IF fixed # d THEN "fixed" ELSE "no_fixes")]
                          ELSE session
    /\ UNCHANGED <<applyScript, rv, lastOutcome>>
    /\ ReviewFrame

\* ------------------------------------------------------------------------
\* Applying an update: FigmaSyncManager.apply_change(label, 'update') and the
\* loop of InteractiveDiffReviewer.apply_decisions
\* ------------------------------------------------------------------------
\* Overwritten with the backup kept under one name for all targets
OverwrittenOneBackup(tree, target, content) ==
    Put(Put(tree, <<"b", "a", "c", "k", "u", "p">>, tree[target]), target, content)
\* shutil.copy2(target, backup); shutil.copy2(new_file, target)
Overwritten(tree, target, content) ==
    Put(Put(tree, BackupPath(target), tree[target]), target, content)

\* history of an apply of `label` that overwrites `target`.  `resolved` is
\* <<>> or <<the path the tracking file gives for the label>>, `fresh` says
\* that this path is an old-tree file no apply has written yet, `before` is
\* its content, `approved` that the label is in the approved bucket,
\* `outcome` the decision recorded last for the label, `again` that the
\* apply done last before this one was of the same label and target, with
\* the label approved, and `was_new` that the target then already held the
\* new tree's content.
ApplyRecord(by, label, target, resolved, approved) ==
    [by |-> by, label |-> label, target |-> target, resolved |-> resolved,
     fresh |-> /\ resolved # <<>>
               /\ IsFile(oldTree, resolved[1])
               /\ resolved[1] \notin DOMAIN firstBefore,
     before |-> IF resolved # <<>> /\ IsFile(oldTree, resolved[1])
                THEN <<oldTree[resolved[1]]>> ELSE <<>>,
     approved |-> approved,
     outcome |-> IF label \in DOMAIN lastOutcome THEN lastOutcome[label] ELSE "none",
     again |-> /\ lastApply # <<>>
               /\ lastApply[1].label = label
               /\ lastApply[1].target = target
               /\ lastApply[1].approved,
     was_new |-> IsFile(newTree, target) /\ oldTree[target] = newTree[target]]

Applied(by, label, target, resolved, approved, content) ==
    /\ oldTree' = Overwritten(oldTree, target, content)
    /\ lastApply' = <<ApplyRecord(by, label, target, resolved, approved)>>
    /\ firstBefore' = IF target \in DOMAIN firstBefore THEN firstBefore
                      ELSE Put(firstBefore, target, oldTree[target])

NotApplied == UNCHANGED <<oldTree, lastApply, firstBefore>>

\* a look-up that indexes tracking['labels'][kind] without the membership test
LookUpUnchecked(labels, label) == IF label \in DOMAIN labels THEN "found" ELSE "KeyError"
\* apply_change: `label not in tracking['labels'][kind]`, tested before the
\* path is looked up
LookUp(labels, label) == IF label \in DOMAIN labels THEN "found" ELSE "invalid"

\* how sync.py --apply-update LABEL ends: main exits when there is no
\* tracking file, apply_change returns False for a label that is not an
\* update label, and a copy of a file that does not exist raises
UpdateStatus(label) ==
    IF tracking = <<>> THEN "no_sync_data"
    ELSE IF LookUp(tracking[1].labels.updates, label) = "KeyError" THEN "raised"
    ELSE IF label \notin DOMAIN tracking[1].labels.updates THEN "False"
    ELSE LET file_path == tracking[1].labels.updates[label]
         IN  IF IsFile(oldTree, file_path) /\ IsFile(newTree, file_path)
             THEN "True" ELSE "raised"

\* sync.py --apply-update LABEL
SyncApplyUpdate ==
    /\ StartCommand
    /\ \E label \in LabelInputs :
          /\ IF tracking = <<>> THEN NotApplied
             ELSE IF label \notin DOMAIN tracking[1].labels.updates THEN NotApplied
             ELSE LET file_path == tracking[1].labels.updates[label]
                  IN  IF ~IsFile(oldTree, file_path) THEN NotApplied
                      ELSE IF ~IsFile(newTree, file_path)
                      THEN /\ oldTree' = Put(oldTree, BackupPath(file_path),
                                             oldTree[file_path])
                           /\ UNCHANGED <<lastApply, firstBefore>>
                      ELSE Applied("apply_change", label, file_path, <<file_path>>,
                                   DictHas(LoadDecisions.approved, label),
                                   newTree[file_path])
          /\ Record(Event("apply_change:update", label, UpdateStatus(label)))
    /\ run' = <<>>
    /\ UNCHANGED <<newTree, tracking, previewDirs, updPreview, analyses>>
    /\ UNCHANGED <<hunkVars, reviewVars, lastOutcome>>

\* shutil.rmtree(dest)
RmTree(tree, dest) ==
    [q \in {p \in DOMAIN tree : p # dest /\ ~IsUnder(p, dest)} |-> tree[q]]
\* shutil.copytree(new / folder, old / folder): the folder, what is under it,
\* and the missing parents of the destination
CopyTree(tree, src_tree, folder) ==
    LET copied == {p \in DOMAIN src_tree : p = folder \/ IsUnder(p, folder)}
    IN  [q \in DOMAIN tree \cup Ancestors(folder) \cup copied |->
            IF q \in copied THEN src_tree[q]
            ELSE IF q \in DOMAIN tree THEN tree[q] ELSE Dir]
\* dest.parent.mkdir(parents=True, exist_ok=True)
MkDirs(tree, ds) ==
    [q \in DOMAIN tree \cup ds |-> IF q \in DOMAIN tree THEN tree[q] ELSE Dir]
\* a parent of p is a file: no directory can be made there
Blocked(tree, p) == \E d \in Ancestors(p) : IsFile(tree, d)

\* AddFolder that keeps an existing destination as it is on 'y'
AddFolderKeepExisting(label, response) ==
    IF tracking = <<>> THEN [tree |-> oldTree, status |-> "no_sync_data"]
    ELSE LET labels == tracking[1].labels.folders
         IN  IF label \notin DOMAIN labels THEN [tree |-> oldTree, status |-> "False"]
             ELSE LET folder_path == labels[label]
                  IN  IF Exists(oldTree, folder_path)
                      THEN [tree |-> oldTree,
                            status |-> IF response = "y" THEN "True" ELSE "False"]
                      ELSE IF ~IsDir(newTree, folder_path) \/ Blocked(oldTree, folder_path)
                      THEN [tree |-> oldTree, status |-> "raised"]
                      ELSE [tree |-> CopyTree(oldTree, newTree, folder_path),
                            status |-> "True"]

\* sync.py --add-folder LABEL: the old tree it leaves and how it ends.
\* `response` is the answer to "Overwrite? (y/n)", asked when the
\* destination exists.
AddFolder(label, response) ==
    IF tracking = <<>> THEN [tree |-> oldTree, status |-> "no_sync_data"]
    ELSE LET labels == tracking[1].labels.folders
         IN  IF LookUp(labels, label) = "KeyError"
             THEN [tree |-> oldTree, status |-> "raised"]
             ELSE IF LookUp(labels, label) = "invalid"
             THEN [tree |-> oldTree, status |-> "False"]
             ELSE LET folder_path == labels[label]
                      cleared == IF Exists(oldTree, folder_path)
                                 THEN RmTree(oldTree, folder_path) ELSE oldTree
                  IN  IF Exists(oldTree, folder_path) /\ response # "y"
                      THEN [tree |-> oldTree, status |-> "False"]
                      ELSE IF IsFile(oldTree, folder_path)
                      THEN [tree |-> oldTree, status |-> "raised"]
                      ELSE IF ~IsDir(newTree, folder_path) \/ Blocked(cleared, folder_path)
                      THEN [tree |-> cleared, status |-> "raised"]
                      ELSE [tree |-> CopyTree(cleared, newTree, folder_path),
                            status |-> "True"]

\* sync.py --add-file LABEL: the old tree it leaves and how it ends
AddFile(label) ==
    IF tracking = <<>> THEN [tree |-> oldTree, status |-> "no_sync_data"]
    ELSE LET labels == tracking[1].labels.files
         IN  IF LookUp(labels, label) = "KeyError"
             THEN [tree |-> oldTree, status |-> "raised"]
             ELSE IF LookUp(labels, label) = "invalid"
             THEN [tree |-> oldTree, status |-> "False"]
             ELSE LET file_path == labels[label]
                      made == MkDirs(oldTree, Ancestors(file_path))
                  IN  IF Blocked(oldTree, file_path)
                      THEN [tree |-> oldTree, status |-> "raised"]
                      ELSE IF ~IsFile(newTree, file_path)
                      THEN [tree |-> made, status |-> "raised"]
                      ELSE IF IsDir(made, file_path)
                      THEN [tree |-> Put(made, file_path \o <<"/">> \o BaseName(file_path),
                                         newTree[file_path]),
                            status |-> "True"]
                      ELSE [tree |-> Put(made, file_path, newTree[file_path]),
                            status |-> "True"]

\* the labels given to --add-folder, --add-file and --apply-update
ChangeLabelInputs == {Label("F", 1), Label("F", 2), Label("N", 1), Label("U", 1)}

SyncFrame ==
    /\ run' = <<>>
    /\ UNCHANGED <<newTree, tracking, previewDirs, updPreview, analyses>>
    /\ UNCHANGED <<hunkVars, reviewVars, firstBefore, lastApply, lastOutcome>>

SyncAddFolder ==
    /\ StartCommand
    /\ \E label \in ChangeLabelInputs, response \in ApplyInputs :
          /\ oldTree' = AddFolder(label, response).tree
          /\ Record(Event("apply_change:folder", label, AddFolder(label, response).status))
    /\ SyncFrame

SyncAddFile ==
    /\ StartCommand
    /\ \E label \in ChangeLabelInputs :
          /\ oldTree' = AddFile(label).tree
          /\ Record(Event("apply_change:file", label, AddFile(label).status))
    /\ SyncFrame

\* apply_decisions, one turn of its loop.  The new version is the first match
\* of glob("*.NEW") in the label's directory, in no particular order; a
\* missing preview, tracking file or target raises and ends the process.
ApplyNext ==
    /\ rv.pc = "applying"
    /\ UNCHANGED commands
    /\ LET label == Head(rv.todo)[1]
           file_path == Head(rv.todo)[2]
           updates == UpdatesOf(rv.tracking_data)
           rest == Tail(rv.todo)
       IN  IF \/ PreviewNames(label) = {}
              \/ rv.tracking_data = <<>>
              \/ ~IsFile(oldTree, file_path)
           THEN /\ rv' = IdleReviewer
                /\ NotApplied
                /\ RecordEnd(Event("apply_decisions", label, "raised"), rv.decisions)
           ELSE /\ \E name \in PreviewNames(label) :
                      Applied("apply_decisions", label, file_path,
                              IF label \in DOMAIN updates THEN <<updates[label]>> ELSE <<>>,
                              TRUE,
                              updPreview[label][name].new)
                /\ rv' = IF rest = <<>> THEN IdleReviewer ELSE [rv EXCEPT !.todo = rest]
                /\ IF rest = <<>>
                   THEN RecordEnd(Event("apply_decisions", label, "applied"), rv.decisions)
                   ELSE Record(Event("apply_decisions", label, "applied"))
    /\ run' = <<>>
    /\ UNCHANGED <<newTree, tracking, previewDirs, updPreview, analyses>>
    /\ UNCHANGED <<hunkVars, decisionsFile, applyScript, lastOutcome, other>>

\* ------------------------------------------------------------------------
\* The tool at work: analyses, review sessions and applies, one command at
\* a time, on two trees that hold the files a and b.
\* ------------------------------------------------------------------------
MainPaths == {<<"a">>, <<"b">>}

\* the export holds a new text for each file; the project holds the old
\* text or already the new one
MainNewTree == (<<"a">> :> "Y") @@ (<<"b">> :> "Z")
MainOldTrees == {t \in [MainPaths -> Contents] : \A p \in MainPaths : t[p] \in {"X", MainNewTree[p]}}

Init ==
    /\ oldTree \in MainOldTrees
    /\ newTree = MainNewTree
    /\ NoAnalysisYet
    /\ HunkIdle
    /\ NoReviewYet
    /\ NoSessionHistory

Next ==
    \/ Analyze
    \/ SyncApplyUpdate
    \/ CmdReview
    \/ HunkChoice
    \/ CmdQuick
    \/ QuickChoice
    \/ ApplyChoice
    \/ CmdApply
    \/ ApplyNext
    \/ CmdFixDecisions

Spec == Init /\ [][Next]_vars

\* ------------------------------------------------------------------------
\* Review sessions on their own: the project holds a (two hunks against the
\* export) and b (three hunks); the answers typed and the way every step
\* ended are kept as history.
\* ------------------------------------------------------------------------
ReviewOldTree == (<<"a">> :> "X") @@ (<<"b">> :> "V")
ReviewNewTree == (<<"a">> :> "Y") @@ (<<"b">> :> "W")

MaxReviewCommands == 3

InitReview ==
    /\ oldTree = ReviewOldTree
    /\ newTree = ReviewNewTree
    /\ NoAnalysisYet
    /\ HunkIdle
    /\ NoReviewYet
    /\ session = NewHistory

\* a new command may start
MayStart == commands < MaxReviewCommands

NextReview ==
    \/ MayStart /\ Analyze
    \/ MayStart /\ CmdReview
    \/ HunkChoice
    \/ MayStart /\ CmdQuick
    \/ QuickChoice
    \/ ApplyChoice
    \/ MayStart /\ CmdApply
    \/ ApplyNext

SpecReview == InitReview /\ [][NextReview]_vars

\* the entries of bucket b of store d for label L: <<>> or <<value>>
EntryOf(d, b, L) == IF DictHas(d[b], L) THEN <<DictGet(d[b], L)>> ELSE <<>>
BucketsOf(d, L) == {b \in {"approved", "rejected", "partial"} : DictHas(d[b], L)}

\* how many answers of `choices` were typed for `label` at `level`
CountTyped(level, label, choices) ==
    Cardinality({x \in 1..Len(session.log) :
                    /\ session.log[x][1] = level
                    /\ session.log[x][2] = label
                    /\ session.log[x][3] \in choices})

\* the step taken last ended a review_file call that visited every hunk
Reviewed == session.last.op = "review_file" /\ session.last.status = "reviewed"
ReviewedLabel == session.last.label
Accepted == CountTyped("hunk", ReviewedLabel, {"a"})
Rejected == CountTyped("hunk", ReviewedLabel, {"r"})
Visited  == CountTyped("hunk", ReviewedLabel, {"a", "r", "s"})
ReviewedPath == tracking[1].labels.updates[ReviewedLabel]
\* the hunks of the label's diff file(s)
HunkCounts(label) ==
    {Len(ParseDiffFile(updPreview[label][name].diff)) : name \in DiffNames(label)}

\* C12: when review_file has visited all n >= 1 hunks of a label, it writes
\* the label to approved iff all n were accepted, to rejected iff all n were
\* rejected, and otherwise to partial with approved = number accepted,
\* rejected = number rejected, total = n; the saved file holds that record.
C12_FileDecisionRule ==
    Reviewed =>
        LET L == ReviewedLabel
            before == session.before
            after == decisionsFile[1]
        IN  /\ Visited >= 1 /\ Visited \in HunkCounts(L)
            /\ IF Accepted = Visited
               THEN /\ DictHas(after.approved, L)
                    /\ DictGet(after.approved, L) = ReviewedPath
                    /\ after.rejected = before.rejected
                    /\ after.partial \in {before.partial, DictDel(before.partial, L)}
               ELSE IF Rejected = Visited
               THEN /\ DictHas(after.rejected, L)
                    /\ DictGet(after.rejected, L) = ReviewedPath
                    /\ after.approved = before.approved
                    /\ after.partial \in {before.partial, DictDel(before.partial, L)}
               ELSE /\ DictHas(after.partial, L)
                    /\ DictGet(after.partial, L) =
                           [file |-> ReviewedPath, approved |-> Accepted,
                            rejected |-> Rejected, total |-> Visited]
                    /\ after.approved = before.approved
                    /\ after.rejected = before.rejected

\* accept, reject, accept on the three hunks of b: partial, 2 / 1 / 3
C12_Witness ==
    /\ Reviewed
    /\ [x \in 1..Len(session.log) |-> session.log[x][3]] = <<"a", "r", "a">>
    /\ DictGet(decisionsFile[1].partial, ReviewedLabel) =
           [file |-> <<"b">>, approved |-> 2, rejected |-> 1, total |-> 3]

\* C13: when a review of a label that has a partial entry ends unanimous, the
\* label is no longer in the partial bucket after that review, in the
\* reviewer's store and in the decisions file.
InMemory == IF rv.pc = "idle" THEN session.memory ELSE rv.decisions
C13_StalePartialRemoved ==
    (/\ Reviewed
     /\ Accepted = Visited \/ Rejected = Visited
     /\ DictHas(session.before.partial, ReviewedLabel)) =>
        /\ ~DictHas(InMemory.partial, ReviewedLabel)
        /\ ~DictHas(decisionsFile[1].partial, ReviewedLabel)

C13_Witness ==
    /\ Reviewed
    /\ Accepted = Visited
    /\ DictHas(session.before.partial, ReviewedLabel)
    /\ DictHas(decisionsFile[1].approved, ReviewedLabel)

\* the step taken last was the answer q, to a hunk or to a label
\* the partial entries of a store d are well formed
WellFormedPartial(d) ==
    \A x \in Range(d.partial) :
        /\ x[2].total >= 1
        /\ 0 <= x[2].approved /\ x[2].approved < x[2].total
        /\ 0 <= x[2].rejected /\ x[2].rejected < x[2].total
        /\ x[2].approved + x[2].rejected <= x[2].total

\* C29: every partial entry, in the store of the running process and in the
\* decisions file, has total >= 1, 0 <= approved < total,
\* 0 <= rejected < total and approved + rejected <= total; so the
\* --fix-decisions pass, run on the decisions file that reviews alone have
\* written, would move no entry.
C29_PartialWellFormed ==
    /\ WellFormedPartial(rv.decisions)
    /\ decisionsFile # <<>> =>
          /\ WellFormedPartial(decisionsFile[1])
          /\ FixLoop(decisionsFile[1].partial, decisionsFile[1]) = decisionsFile[1]

\* the file holds a partial entry with an accepted and a rejected hunk,
\* written by review_file in the step taken last
C29_Witness ==
    /\ Reviewed
    /\ decisionsFile # <<>>
    /\ \E x \in Range(decisionsFile[1].partial) :
          x[1] = ReviewedLabel /\ x[2].approved >= 1 /\ x[2].rejected >= 1

QuitEntered == session.last.status = "quit"
\* the answers a and r typed before in the same process
EarlierDecisions ==
    {x \in 1..Len(session.log) : session.log[x][3] \in {"a", "r"}}

\* C17 as stated: once q is entered, the session asks about no further hunk
\* or label, and the decisions file reflects every a / r typed before in the
\* session: a label accepted (rejected) in quick review is in approved
\* (rejected), and a label with an accepted or rejected hunk has an entry.
C17_QuitPersistsDecisions ==
    QuitEntered =>
        /\ rv.pc \notin {"quick", "hunk"}
        /\ \A x \in EarlierDecisions :
              LET level == session.log[x][1]
                  L == session.log[x][2]
                  choice == session.log[x][3]
              IN  IF level = "file"
                  THEN DictHas(LoadDecisions[IF choice = "a" THEN "approved"
                                             ELSE "rejected"], L)
                  ELSE BucketsOf(LoadDecisions, L) # {}

\* ------------------------------------------------------------------------
\* Detailed reviews on their own, with a reviewer who does not answer v or
\* something unknown for ever: an answer a, r, s or q comes in the end.
\* ------------------------------------------------------------------------
NextDetailed ==
    \/ MayStart /\ Analyze
    \/ MayStart /\ CmdReview
    \/ HunkChoice

\* the answer typed was a, r, s or q
HunkAnswer == HunkChoice /\ Len(session'.log) > Len(session.log)

SpecDetailed == InitReview /\ [][NextDetailed]_vars /\ WF_vars(HunkAnswer)

AtHunk == rv.pc = "hunk"
\* the hunks of the running review that left Pending, by answer
Left(choices) == CountTyped("hunk", rv.label, choices)

\* one step of the loop over the hunks
HunkStep ==
    AtHunk =>
        IF Len(session'.log) = Len(session.log)
        THEN rv' = rv
        ELSE LET typed == session'.log[Len(session'.log)]
                 choice == typed[3]
             IN  /\ Len(session'.log) = Len(session.log) + 1
                 /\ typed[1] = "hunk" /\ typed[2] = rv.label
                 /\ choice \in {"a", "r", "s", "q"}
                 /\ choice = "q" => rv'.pc # "hunk" /\ session'.last.status = "quit"
                 /\ (choice # "q" /\ rv.idx < rv.total) =>
                       /\ rv'.pc = "hunk" /\ rv'.label = rv.label
                       /\ rv'.total = rv.total
                       /\ rv'.idx = rv.idx + 1
                       /\ rv'.approved = rv.approved + (IF choice = "a" THEN 1 ELSE 0)
                       /\ rv'.rejected = rv.rejected + (IF choice = "r" THEN 1 ELSE 0)
                 /\ (choice # "q" /\ rv.idx = rv.total) =>
                       /\ rv'.pc # "hunk"
                       /\ session'.last = Event("review_file", rv.label, "reviewed")

\* where the loop stands, and what it has counted, at every prompt and at
\* the file decision
HunkCount ==
    /\ AtHunk =>
          /\ rv.total \in HunkCounts(rv.label)
          /\ rv.idx \in 1..rv.total
          /\ Left({"a", "r", "s"}) = rv.idx - 1
          /\ Left({"a"}) = rv.approved
          /\ Left({"r"}) = rv.rejected
    /\ Reviewed =>
          Accepted + Rejected + CountTyped("hunk", ReviewedLabel, {"s"}) \in
              HunkCounts(ReviewedLabel)

\* C25: review_file presents the hunks in file order, the first one first;
\* a, r or s moves to the next hunk (after the last one, to the file
\* decision) and counts the answer, so every hunk leaves Pending once; v and
\* an unknown answer leave the hunk and every counter as they are; at the
\* file decision accepted + rejected + skipped is the number of hunks; and
\* when a, r, s or q is answered in the end for every hunk shown, the review
\* ends.
C25_HunkStateMachine ==
    /\ [][HunkStep]_vars
    /\ [][(~AtHunk /\ AtHunk') => rv'.idx = 1 /\ rv'.approved = 0 /\ rv'.rejected = 0]_vars
    /\ []HunkCount
    /\ (AtHunk ~> ~AtHunk)

\* the three hunks of b were answered r, s, a, in that order, and the
\* review ended with the file decision
C25_Witness ==
    /\ Reviewed
    /\ session.log = <<<<"hunk", Label("U", 2), "r">>, <<"hunk", Label("U", 2), "s">>,
                       <<"hunk", Label("U", 2), "a">>>>
    /\ rv.pc = "idle"

\* ------------------------------------------------------------------------
\* Two reviewers on one sync directory: while a review.py process waits at a
\* prompt, another one is started, and the two take turns.
\* ------------------------------------------------------------------------
MaxSwitches == 2
MaxRaceCommands == 3

\* the running process waits and the waiting one runs
Switch ==
    /\ other.switches < MaxSwitches
    /\ rv.pc # "idle" \/ other.proc.pc # "idle"
    /\ rv' = other.proc
    /\ other' = [proc |-> rv, switches |-> other.switches + 1]
    /\ UNCHANGED <<scanVars, hunkVars, decisionsFile, applyScript, histVars, commands>>

InitRace ==
    /\ oldTree = ReviewOldTree
    /\ newTree = ReviewNewTree
    /\ NoAnalysisYet
    /\ HunkIdle
    /\ NoReviewYet
    /\ NoSessionHistory

RaceMayStart == commands < MaxRaceCommands

NextRace ==
    \/ RaceMayStart /\ Analyze
    \/ RaceMayStart /\ CmdQuick
    \/ QuickChoice
    \/ HunkChoice
    \/ ApplyChoice
    \/ ApplyNext
    \/ Switch

SpecRace == InitRace /\ [][NextRace]_vars

\* the labels a decisions file holds in bucket b
Saved(f, b) == IF f = <<>> THEN {} ELSE {x[1] : x \in Range(f[1][b])}
SavedAnywhere(f) == Saved(f, "approved") \cup Saved(f, "rejected") \cup Saved(f, "partial")
\* the step writes a decisions file that lacks a decision the file held
Dropped ==
    \/ Saved(decisionsFile, "approved") \ Saved(decisionsFile', "approved") # {}
    \/ Saved(decisionsFile, "rejected") \ Saved(decisionsFile', "rejected") # {}
    \/ SavedAnywhere(decisionsFile) \ SavedAnywhere(decisionsFile') # {}

\* C26: as long as the processes run one after the other (they never took
\* turns), no save drops a decision the file held: every approved and every
\* rejected entry stays, and every label stays in some bucket.  (That two
\* processes which took turns do lose a saved decision is C26_Witness.)
C26_NoLostUpdateAlone ==
    [][Dropped => other.switches > 0]_vars

\* a lost update: both processes have loaded the decisions before either
\* saved, the one that approved U001 has saved and ended, the other one
\* has saved and ended after it, and the file does not hold U001
C26_Witness ==
    /\ rv.pc = "idle" /\ other.proc.pc = "idle"
    /\ other.switches > 0
    /\ decisionsFile # <<>>
    /\ Label("U", 1) \in DOMAIN lastOutcome
    /\ lastOutcome[Label("U", 1)] = "approved"
    /\ Label("U", 1) \notin SavedAnywhere(decisionsFile)

\* ------------------------------------------------------------------------
\* Applying changes by label: the export brings a new text for a and a new
\* folder d that holds the file e and the folder g; folders, files and
\* updates are applied with any of the labels F001, F002, N001, U001, and
\* updates are reviewed and
\* applied from the decisions.  There is no decisions file at the start, or
\* one that approves U001.
\* ------------------------------------------------------------------------
ApplyOldTree == (<<"a">> :> "X")
ApplyNewTree ==
    (<<"a">> :> "Y") @@ (<<"d">> :> Dir) @@ (<<"d", "/", "e">> :> "X")
        @@ (<<"d", "/", "g">> :> Dir)

ApplyStores ==
    {<<>>, <<[EmptyDecisions EXCEPT !.approved = <<<<Label("U", 1), <<"a">>>>>>]>>}

MaxApplyCommands == 3

InitApply ==
    /\ oldTree = ApplyOldTree
    /\ newTree = ApplyNewTree
    /\ NoAnalysisYet
    /\ HunkIdle
    /\ decisionsFile \in ApplyStores
    /\ applyScript = <<>> /\ rv = IdleReviewer /\ other = NoOther
    /\ firstBefore = <<>> /\ lastApply = <<>> /\ lastOutcome = <<>>
    /\ commands = 0
    /\ session = NewHistory

ApplyMayStart == commands < MaxApplyCommands

NextApply ==
    \/ ApplyMayStart /\ Analyze
    \/ ApplyMayStart /\ SyncAddFolder
    \/ ApplyMayStart /\ SyncAddFile
    \/ ApplyMayStart /\ SyncApplyUpdate
    \/ ApplyMayStart /\ CmdReview
    \/ HunkChoice
    \/ ApplyMayStart /\ CmdQuick
    \/ QuickChoice
    \/ ApplyChoice
    \/ ApplyMayStart /\ CmdApply
    \/ ApplyNext

SpecApply == InitApply /\ [][NextApply]_vars

\* the step taken last was review_file or apply_change with a label that is
\* not a tracked label of the kind asked for
LabelsOfKind(op) ==
    IF op = "review_file" THEN UpdatesOf(tracking)
    ELSE IF op = "apply_change:update" THEN tracking[1].labels.updates
    ELSE IF op = "apply_change:file" THEN tracking[1].labels.files
    ELSE tracking[1].labels.folders
InvalidLabelGiven(s) ==
    /\ s.last.op \in {"review_file", "apply_change:folder", "apply_change:file",
                        "apply_change:update"}
    /\ tracking # <<>>
    /\ s.last.label \notin DOMAIN LabelsOfKind(s.last.op)

\* C18: review_file with a label that is not a tracked update label, and
\* apply_change with a label that is not a tracked label of the kind asked
\* for, end with the error outcome ('error' / False), raise nothing, and
\* leave the decisions (file and memory), the tracking file and both trees
\* as they were.
C18_InvalidLabelNoEffect ==
    [][InvalidLabelGiven(session') =>
          /\ session'.last.status =
                 (IF session'.last.op = "review_file" THEN "error" ELSE "False")
          /\ UNCHANGED <<decisionsFile, tracking, oldTree, newTree>>
          /\ session'.last.op = "review_file" => session'.memory = session'.before]_vars

C18_Witness ==
    /\ InvalidLabelGiven(session)
    /\ session.last.op = "apply_change:file"
    /\ session.last.label = Label("U", 1)
    /\ Label("U", 1) \in DOMAIN tracking[1].labels.updates
    /\ \E p \in DOMAIN oldTree : p \notin DOMAIN ApplyOldTree

\* the step taken last was apply_change of a folder label whose destination
\* was a folder of the old tree
FolderCollision(s) ==
    /\ s.last.op = "apply_change:folder"
    /\ tracking # <<>>
    /\ s.last.label \in DOMAIN tracking[1].labels.folders
    /\ IsDir(oldTree, tracking[1].labels.folders[s.last.label])
Inside(p, folder) == p = folder \/ IsUnder(p, folder)
SameAt(t, u, p) == (p \in DOMAIN t) = (p \in DOMAIN u) /\ (p \in DOMAIN t => t[p] = u[p])

\* C24: apply_change of a folder label whose destination folder exists
\* returns False on any answer but 'y' and True on 'y'; when it returned
\* False the old tree is as it was; when it returned True the destination
\* subtree of the old tree is the new tree's folder, path by path, and every
\* path outside it is as it was.
C24_FolderCollision ==
    [][FolderCollision(session') =>
          LET label  == session'.last.label
              folder == tracking[1].labels.folders[label]
              paths  == DOMAIN oldTree \cup DOMAIN oldTree' \cup DOMAIN newTree
          IN  /\ \A r \in ApplyInputs :
                    AddFolder(label, r).status = (IF r = "y" THEN "True" ELSE "False")
              /\ session'.last.status \in {"True", "False"}
              /\ session'.last.status = "False" => oldTree' = oldTree
              /\ session'.last.status = "True" =>
                    \A p \in paths :
                        IF Inside(p, folder) THEN SameAt(oldTree', newTree, p)
                        ELSE SameAt(oldTree', oldTree, p)]_vars

\* the folder d was applied over the destination that applying d/g had
\* made, which lacked the file e of the new tree's folder
C24_Witness ==
    /\ session.last = Event("apply_change:folder", Label("F", 1), "True")
    /\ session.prev = Event("apply_change:folder", Label("F", 2), "True")
    /\ <<"d", "/", "e">> \in DOMAIN oldTree

\* C30: apply_change(L, 'update'), started as a command of its own and
\* resolving L through the tracking file, leaves every path of the old tree
\* but L's path P and P.backup as it was, and leaves the new tree, the
\* tracking file and the decisions file as they were; when it returned True,
\* P holds the new tree's version and P.backup what P held before.
C30_UpdateApplyFrame ==
    [][session'.last.op = "apply_change:update" =>
          /\ UNCHANGED <<newTree, tracking, decisionsFile>>
          /\ IF tracking # <<>> /\ session'.last.label \in DOMAIN tracking[1].labels.updates
             THEN LET P == tracking[1].labels.updates[session'.last.label]
                  IN  /\ \A p \in (DOMAIN oldTree \cup DOMAIN oldTree') \ {P, BackupPath(P)} :
                            SameAt(oldTree', oldTree, p)
                      /\ session'.last.status = "True" =>
                            /\ oldTree'[P] = newTree[P]
                            /\ oldTree'[BackupPath(P)] = oldTree[P]
             ELSE oldTree' = oldTree]_vars

\* U001 was applied by a command of its own, after the folder d had been
\* added to the old tree: a holds the new version, a.backup the old one
C30_Witness ==
    /\ session.last = Event("apply_change:update", Label("U", 1), "True")
    /\ session.prev.op = "apply_change:folder" /\ session.prev.status = "True"
    /\ oldTree[<<"a">>] = "Y" /\ oldTree[BackupPath(<<"a">>)] = "X"
    /\ <<"d", "/", "e">> \in DOMAIN oldTree

\* the files of the old tree which the step that ended with event e wrote
\* again, with whatever content: those under the destination of a folder
\* label that was copied over, and the destination of a file label
Rewritten(e) ==
    IF tracking = <<>> \/ e.status # "True" THEN {}
    ELSE IF e.op = "apply_change:folder"
    THEN {p \in DOMAIN oldTree :
             IsFile(oldTree, p) /\ IsUnder(p, tracking[1].labels.folders[e.label])}
    ELSE IF e.op = "apply_change:file"
    THEN {p \in DOMAIN oldTree :
             IsFile(oldTree, p) /\ p = tracking[1].labels.files[e.label]}
    ELSE {}
IsBackup(p) == \E q \in DOMAIN oldTree : p = BackupPath(q)

\* C22 as stated: when a step replaces or removes a file of the old tree
\* (the file is gone, holds another content, or was written again by a
\* folder or file label), the old tree afterwards holds a backup of the file
\* with the content the file had before the step.
C22_BackupBeforeOverwrite ==
    [][\A p \in DOMAIN oldTree :
          (/\ IsFile(oldTree, p) /\ ~IsBackup(p)
           /\ \/ p \notin DOMAIN oldTree'
              \/ oldTree'[p] # oldTree[p]
              \/ p \in Rewritten(session'.last))
          => /\ BackupPath(p) \in DOMAIN oldTree'
             /\ oldTree'[BackupPath(p)] = oldTree[p]]_vars

\* the step taken last ran, without a tracking file, an operation that needs
\* one (apply_decisions needs it when something is approved)
NeedsTracking ==
    {"apply_change:folder", "apply_change:file", "apply_change:update",
     "review_file", "quick_review_all", "apply_decisions"}
MissingTracking(s) ==
    /\ tracking = <<>>
    /\ s.last.op \in NeedsTracking
    /\ s.last.op = "apply_decisions" => s.last.status # "nothing"

\* C19 as stated: without a tracking file, apply_change, review_file,
\* quick_review_all and apply_decisions (with something approved) end in
\* the reported missing-state error, raise nothing, and leave both trees and
\* the decisions file as they were.
C19_MissingTrackingReported ==
    [][MissingTracking(session') =>
          /\ session'.last.status = "no_sync_data"
          /\ UNCHANGED <<oldTree, newTree, decisionsFile>>]_vars

\* ------------------------------------------------------------------------
\* A decisions file left by earlier use of the tool: --fix-decisions and
\* --apply on every store of a bounded family.  The store names b for U002
\* and, for U001, a or c, a file the project does not hold (any more).
\* ------------------------------------------------------------------------
\* the hunk counts of a partial entry: total 0 or MaxTotal
MaxTotal == 2
PartialCounts ==
    {c \in [approved : 0..MaxTotal, rejected : 0..MaxTotal, total : {0, MaxTotal}] :
        c.approved + c.rejected <= c.total}

StoreLabels == <<Label("U", 1), Label("U", 2)>>
StorePaths == {<<"a">>, <<"c">>}
StorePath(label, first) == IF label = Label("U", 1) THEN first ELSE <<"b">>

\* the entries of a bucket for the labels of S, in label order
PlainBucket(S, first) ==
    SelectSeq([x \in 1..Len(StoreLabels) |->
                  <<StoreLabels[x], StorePath(StoreLabels[x], first)>>],
              LAMBDA item : item[1] \in S)
PartialBucket(f, first) ==
    SelectSeq([x \in 1..Len(StoreLabels) |->
                  <<StoreLabels[x],
                    IF StoreLabels[x] \in DOMAIN f
                    THEN [file |-> StorePath(StoreLabels[x], first),
                          approved |-> f[StoreLabels[x]].approved,
                          rejected |-> f[StoreLabels[x]].rejected,
                          total |-> f[StoreLabels[x]].total]
                    ELSE <<>>>>],
              LAMBDA item : item[1] \in DOMAIN f)

StoredDecisions ==
    UNION {{[approved |-> PlainBucket(A, first), rejected |-> PlainBucket(B, first),
             partial |-> PartialBucket(f, first)] :
               A \in SUBSET Range(StoreLabels), B \in SUBSET Range(StoreLabels),
               f \in UNION {[S -> PartialCounts] : S \in SUBSET Range(StoreLabels)}} :
           first \in StorePaths}

MaxStoreCommands == 2

InitStore ==
    /\ oldTree = ReviewOldTree
    /\ newTree = ReviewNewTree
    /\ NoAnalysisYet
    /\ HunkIdle
    /\ applyScript = <<>> /\ rv = IdleReviewer /\ other = NoOther
    /\ firstBefore = <<>> /\ lastApply = <<>> /\ lastOutcome = <<>>
    /\ commands = 0
    /\ decisionsFile \in {<<d>> : d \in StoredDecisions}
    /\ session = NewHistory

StoreMayStart == commands < MaxStoreCommands

NextStore ==
    \/ StoreMayStart /\ Analyze
    \/ StoreMayStart /\ CmdFixDecisions
    \/ StoreMayStart /\ CmdApply
    \/ ApplyNext

SpecStore == InitStore /\ [][NextStore]_vars

Fixed == session.last.op = "fix_decisions"

\* C14: a --fix-decisions pass run right after another one leaves the
\* decisions, in memory and in the file, as the first pass left them.
C14_FixTwiceIsFixOnce ==
    /\ Fixed => session.memory = LoadDecisions
    /\ (Fixed /\ session.prev.op = "fix_decisions") => LoadDecisions = session.before

C14_Witness ==
    /\ Fixed
    /\ session.prev = Event("fix_decisions", <<>>, "fixed")
    /\ LoadDecisions.approved # <<>>

FullyApproved(details) == details.approved = details.total
FullyRejected(details) == details.rejected = details.total

\* C15 as stated: after the --fix-decisions pass every partial entry with
\* approved = total is in approved with its file path, every one with
\* rejected = total is in rejected, no entry left in partial has approved =
\* total or rejected = total, every other entry of the three buckets is as
\* before, and a promoted label is in exactly one bucket.
C15_FixPostcondition ==
    Fixed =>
        LET before == session.before
            after == LoadDecisions
            promoted == {L \in Range(DictKeys(before.partial)) :
                            \/ FullyApproved(DictGet(before.partial, L))
                            \/ FullyRejected(DictGet(before.partial, L))}
        IN  /\ \A L \in promoted :
                  LET details == DictGet(before.partial, L)
                  IN  /\ FullyApproved(details) =>
                             EntryOf(after, "approved", L) = <<details.file>>
                      /\ (FullyRejected(details) /\ ~FullyApproved(details)) =>
                             EntryOf(after, "rejected", L) = <<details.file>>
                      /\ Cardinality(BucketsOf(after, L)) = 1
            /\ \A L \in Range(DictKeys(after.partial)) :
                  /\ ~FullyApproved(DictGet(after.partial, L))
                  /\ ~FullyRejected(DictGet(after.partial, L))
            /\ \A L \in Range(StoreLabels) \ promoted :
                  \A b \in {"approved", "rejected", "partial"} :
                      EntryOf(after, b, L) = EntryOf(before, b, L)

\* C16 as stated: apply_decisions leaves the approved / rejected / partial
\* mapping, in memory and in the file, as it was when it was called, and
\* applies no label that is not in the approved bucket of the file.
ApplyingDecisions == rv.pc = "applying" \/ session.last.op = "apply_decisions"
C16_ApplyLeavesStoreAlone ==
    /\ ApplyingDecisions => InMemory = LoadDecisions
    /\ (lastApply # <<>> /\ lastApply[1].by = "apply_decisions") =>
           DictHas(LoadDecisions.approved, lastApply[1].label)

\* a turn of the loop of apply_decisions failed
BatchFailure == session.last.op = "apply_decisions" /\ session.last.status = "raised"
\* the approved labels that come after the failed one, with their paths
LaterItems ==
    LET items == session.memory.approved
        at == CHOOSE x \in 1..Len(items) : items[x][1] = session.last.label
    IN  {items[x] : x \in (at + 1)..Len(items)}
\* nothing stands in the way of applying the item: its preview and its
\* target exist
Applicable(item) ==
    /\ PreviewNames(item[1]) # {}
    /\ tracking # <<>>
    /\ IsFile(oldTree, item[2])

\* C20 as stated: when applying one approved label fails in apply_decisions,
\* the batch goes on: every later approved label that can be applied is
\* still being applied.
C20_BatchApplyIsolation ==
    BatchFailure =>
        \A item \in LaterItems :
            Applicable(item) => (rv.pc = "applying" /\ item \in Range(rv.todo))

\* ------------------------------------------------------------------------
\* Properties of the decision store and of applying updates (under Spec)
\* ------------------------------------------------------------------------
BucketKeys(d, bucket) == Range(DictKeys(d[bucket]))
Exclusive(d) ==
    /\ BucketKeys(d, "approved") \cap BucketKeys(d, "rejected") = {}
    /\ BucketKeys(d, "approved") \cap BucketKeys(d, "partial") = {}
    /\ BucketKeys(d, "rejected") \cap BucketKeys(d, "partial") = {}

\* C1 as stated: no label is a key of more than one of the buckets approved,
\* rejected, partial, in the reviewer's store and in the decisions file.
C1_DecisionExclusivity ==
    /\ Exclusive(rv.decisions)
    /\ decisionsFile # <<>> => Exclusive(decisionsFile[1])

\* C2 as stated: after an apply of a label that resolves to an old-tree file
\* P which no apply has written before, P holds the new tree's content of P
\* and P.backup the content P had just before.
C2_FirstApplyInstallsNewVersion ==
    (lastApply # <<>> /\ lastApply[1].fresh) =>
        LET P == lastApply[1].resolved[1]
        IN  /\ IsFile(newTree, P) /\ oldTree[P] = newTree[P]
            /\ IsFile(oldTree, BackupPath(P))
            /\ oldTree[BackupPath(P)] = lastApply[1].before[1]

\* C3 as stated: the backup of every target that was applied holds the
\* content the target had before its first apply, whatever was applied since.
C3_BackupKeepsFirstContent ==
    \A P \in DOMAIN firstBefore :
        /\ IsFile(oldTree, BackupPath(P))
        /\ oldTree[BackupPath(P)] = firstBefore[P]

\* C4 as stated: when an approved label is applied twice in a row, the target
\* equals the new tree's file after the first and after the second apply, and
\* the target has at most one backup file.
BackupsOf(P) == {q \in DOMAIN oldTree : IsPrefix(BackupPath(P), q)}
C4_ApplyTwiceIdempotent ==
    (lastApply # <<>> /\ lastApply[1].again /\ lastApply[1].approved) =>
        LET P == lastApply[1].target
        IN  /\ lastApply[1].was_new
            /\ IsFile(newTree, P) /\ oldTree[P] = newTree[P]
            /\ Cardinality(BackupsOf(P)) <= 1

\* C5 as stated: apply_decisions never overwrites the target of a label whose
\* most recent review outcome was Partial.
C5_PartialNeverApplied ==
    lastApply # <<>> =>
        ~(lastApply[1].by = "apply_decisions" /\ lastApply[1].outcome = "partial")

\* C27 as stated: apply_decisions never overwrites (nor backs up) the target
\* of a label whose most recent recorded decision was Rejected.
C27_RejectedNeverApplied ==
    lastApply # <<>> =>
        ~(lastApply[1].by = "apply_decisions" /\ lastApply[1].outcome = "rejected")

\* C28 as stated: every label of the approved bucket of the decisions file
\* is an update label of the tracking file and is stored with the path the
\* tracking file gives it, and a target that apply_decisions has overwritten
\* holds the new tree's version of that path.
C28_StoreMatchesRegistry ==
    /\ (decisionsFile # <<>> /\ tracking # <<>>) =>
          \A x \in Range(decisionsFile[1].approved) :
              /\ x[1] \in DOMAIN tracking[1].labels.updates
              /\ tracking[1].labels.updates[x[1]] = x[2]
    /\ (lastApply # <<>> /\ lastApply[1].by = "apply_decisions") =>
          LET P == lastApply[1].target
          IN  IsFile(newTree, P) /\ IsFile(oldTree, P) /\ oldTree[P] = newTree[P]
====
